---- MODULE Spec2Model ----
(***************************************************************************)
(* Model of vue-ssr-build's client/server routing integration:             *)
(*   - shouldProcessRouteUpdate, the route-update gate                     *)
(*   - useRouteVuexModulesClient, the beforeResolve / afterEach hooks that *)
(*     register and deregister dynamic Vuex modules                        *)
(*   - useRouteVuexModulesServer, the one-shot server registration         *)
(*                                                                         *)
(* JavaScript strings that the code takes apart (module names, paths) are  *)
(* sequences of one-character strings; other JavaScript values are the     *)
(* strings "true", "false", "1", "undefined", ...                          *)
(***************************************************************************)
EXTENDS Naturals, Integers, Sequences, FiniteSets, TLC

VARIABLES
    current,               \* the router's current route
    pending,               \* destination accepted by beforeResolve, not yet committed
    pc,                    \* "boot" | "idle" | "resolved"
    queuedRemovalModules,  \* the closure's removal queue (module name strings)
    modules,               \* the store's registered module paths (hasModule)
    state,                 \* store.state, the store's state tree
    hook,                  \* the hook that ran last
    hTo, hFrom,            \* the routes the last hook was called with
    prevQueue, prevModules,\* queue and store when the last hook started
    regLog,                \* safelyRegisterModule attempts of the last hook
    unregLog,              \* unregisterModule calls of the last hook, in call order
    nextLog,               \* the values the last beforeResolve passed to next, one per call
    thrownLog,             \* the values thrown inside the last beforeResolve
    owed,                  \* names left behind by a processed transition, not yet released
    early,                 \* <<parent, child>>: parent unregistered while child stayed queued
    inverted,              \* <<parent, child>> of early whose child was unregistered later
    gC, gFrom, gRoute,     \* inputs of a direct gate evaluation
    gResult,               \* its result, "none" before the call
    run,                   \* the fetch pipeline run (useFetchDataClient / useFetchDataServer)
    shadow,                \* the same run, on the same inputs, without the timing API
    other,                 \* an earlier client run that a newer navigation has overtaken
    delivered,             \* the calls of next the router has received, in order
    dev                    \* setupDevServer: its closure variables and what it called

vars == << current, pending, pc, queuedRemovalModules, modules, state, hook, hTo, hFrom,
           prevQueue, prevModules, regLog, unregLog, nextLog, thrownLog, owed, early,
           inverted, gC, gFrom, gRoute, gResult, run, shadow, other, delivered, dev >>

lifecycleVars == << current, pending, pc, queuedRemovalModules, modules, state, hook, hTo,
                    hFrom,
                    prevQueue, prevModules, regLog, unregLog, nextLog, thrownLog, owed,
                    early, inverted >>

gateVars == << gC, gFrom, gRoute, gResult >>

overlapVars == << other, delivered >>

fetchVars == << run, shadow, other, delivered >>

devVars == << dev >>

----------------------------------------------------------------------------
(* Bounds                                                                  *)

\* query values are "1" .. NumQueryVals
NumQueryVals == 2

\* a hook run lets at most the MaxThrowAt-th store.registerModule call throw
MaxThrowAt == 2

\* each compiler completes at most MaxBuilds builds and the template file changes
\* at most MaxBuilds times
MaxBuilds == 2

----------------------------------------------------------------------------
(* Strings                                                                 *)

Str_a   == << "a" >>
Str_b   == << "b" >>
Str_c   == << "c" >>
Str_ab  == << "a", "/", "b" >>
Path_a  == << "/", "a" >>
Path_b  == << "/", "b" >>
Path_c  == << "/", "c" >>
Path_ab == << "/", "a", "/", "b" >>
Path_p  == << "/", "p" >>
Path_root == << "/" >>

\* the name as a single segment, not split
Split_Whole(s) == << s >>

\* String.prototype.split('/')
RECURSIVE Split(_)
Split(s) ==
    IF s = << >> THEN << << >> >>
    ELSE LET rest == Split(Tail(s)) IN
         IF Head(s) = "/" THEN << << >> >> \o rest
         ELSE << << Head(s) >> \o Head(rest) >> \o Tail(rest)

\* String.prototype.replace('/', ''): drops the first '/' only
RECURSIVE ReplaceFirstSlash(_)
ReplaceFirstSlash(s) ==
    IF s = << >> THEN << >>
    ELSE IF Head(s) = "/" THEN Tail(s)
    ELSE << Head(s) >> \o ReplaceFirstSlash(Tail(s))

\* m => m.split('/').length
Depth(name) == Len(Split(name))

----------------------------------------------------------------------------
(* JavaScript values that reach next, a rejection handler or a caller      *)

Msg_error   == << "e", "r", "r", "o", "r" >>
Msg_oops    == << "o", "o", "p", "s" >>
Msg_matched == << "m", "a", "t", "c", "h", "e", "d" >>
Msg_unknown == << "U", "n", "k", "n", "o", "w", "n", " ", "r", "o", "u", "t", "i", "n", "g",
                  " ", "e", "r", "r", "o", "r" >>

\* t is the type of the value, s its text and k the key of a one-key object
VUndefined  == [t |-> "undefined", k |-> << >>, s |-> << >>]
VNull       == [t |-> "null", k |-> << >>, s |-> << >>]
VStr(x)     == [t |-> "string", k |-> << >>, s |-> x]
\* new Error(msg)
VErr(msg)   == [t |-> "Error", k |-> << >>, s |-> msg]
\* { key: 'x' }
VObj(key, x) == [t |-> "object", k |-> key, s |-> x]
\* an object that refers to itself
VCircular   == [t |-> "circular", k |-> << >>, s |-> << >>]

\* the TypeError raised by reading route.matched of a route that has none
ErrMatched  == VErr(Msg_matched)

\* what a throwing store.registerModule throws
ThrownValues == { VErr(Msg_error), VStr(Msg_error), VObj(Msg_error, Msg_oops) }

----------------------------------------------------------------------------
(* Sequence helpers (Array.prototype / lodash)                             *)

Range(s) == { s[i] : i \in DOMAIN s }

\* lodash uniq: first occurrences, in order
RECURSIVE UniqAcc(_, _)
UniqAcc(s, acc) ==
    IF s = << >> THEN acc
    ELSE UniqAcc(Tail(s), IF Head(s) \in Range(acc) THEN acc ELSE Append(acc, Head(s)))

Uniq(s) == UniqAcc(s, << >>)

\* stable insertion of x into a sequence already ordered by Depth
RECURSIVE InsertByDepth(_, _)
InsertByDepth(s, x) ==
    IF s = << >> THEN << x >>
    ELSE IF Depth(Head(s)) <= Depth(x) THEN << Head(s) >> \o InsertByDepth(Tail(s), x)
    ELSE << x >> \o s

RECURSIVE SortByDepthAcc(_, _)
SortByDepthAcc(s, acc) ==
    IF s = << >> THEN acc
    ELSE SortByDepthAcc(Tail(s), InsertByDepth(acc, Head(s)))

\* lodash sortBy(names, [m => m.split('/').length]): stable, ascending
SortByDepth(s) == SortByDepthAcc(s, << >>)

----------------------------------------------------------------------------
(* Routes, components, module declarations                                 *)

\* lodash get(route, 'query'): undefined, or a key -> value mapping
QueryUndefined == [defined |-> FALSE, kv |-> << >>]
QueryEmpty     == [defined |-> TRUE, kv |-> << >>]
QueryFoo(v)    == [defined |-> TRUE, kv |-> [k \in {"foo"} |-> v]]
QueryVals      == { ToString(i) : i \in 1..NumQueryVals }
Queries        == { QueryUndefined, QueryEmpty } \cup { QueryFoo(v) : v \in QueryVals }

\* c.shouldProcessRouteUpdate: absent, an object (its own fields), or a function
PolicyNone      == [kind |-> "none", obj |-> << >>, fn |-> "none"]
PolicyObj(o)    == [kind |-> "object", obj |-> o, fn |-> "none"]
PolicyFn(f)     == [kind |-> "function", obj |-> << >>, fn |-> f]

PolicyFields    == { "path", "query", "hash" }
PolicyFieldVals == { "true", "false", "1", "undefined" }
PolicyObjects   == UNION { [F -> PolicyFieldVals] : F \in SUBSET PolicyFields }
\* function policies: constant results, and the test suite's
\* route.path !== from.path || route.query.foo !== from.query.foo
PolicyFunctions == { "returnsTrue", "returnsFalse", "returnsOne", "returnsUndefined",
                     "pathOrFooChanged" }
Policies        == { PolicyNone } \cup { PolicyObj(o) : o \in PolicyObjects }
                       \cup { PolicyFn(f) : f \in PolicyFunctions }

\* vuex module declaration: moduleName is a literal or ({ $route }) => $route.path.replace('/', '')
LiteralDef(n, m) == [isFn |-> FALSE, moduleName |-> n, module |-> m]
PathFnDef(m)     == [isFn |-> TRUE, moduleName |-> << >>, module |-> m]

\* component definition: 'vuex' in c, c.vuex (one declaration or an array), policy
NoVuex(p)         == [hasVuex |-> FALSE, isArray |-> FALSE, vuex |-> << >>, policy |-> p]
VuexOne(d, p)     == [hasVuex |-> TRUE, isArray |-> FALSE, vuex |-> << d >>, policy |-> p]
VuexArray(ds, p)  == [hasVuex |-> TRUE, isArray |-> TRUE, vuex |-> ds, policy |-> p]

MkRoute(n, p, q, h, m) ==
    [hasMatched |-> TRUE, name |-> n, path |-> p, query |-> q, hash |-> h, matched |-> m]
\* a route object with no matched array
Malformed(p) ==
    [hasMatched |-> FALSE, name |-> "undefined", path |-> p, query |-> QueryUndefined,
     hash |-> "undefined", matched |-> << >>]
\* matched record: { components: { ... } }
Rec(cs) == [components |-> cs]

----------------------------------------------------------------------------
(* utils                                                                   *)

RECURSIVE FlattenComponents(_)
FlattenComponents(ms) ==
    IF ms = << >> THEN << >>
    ELSE Head(ms).components \o FlattenComponents(Tail(ms))

\* getMatchedComponents(route): the components of route.matched, in order;
\* throws when route.matched is missing
GetMatchedThrows(route) == ~route.hasMatched
getMatchedComponents(route) == FlattenComponents(route.matched)

getModuleName(vuexModuleDef, route) ==
    IF vuexModuleDef.isFn THEN ReplaceFirstSlash(route.path)
    ELSE vuexModuleDef.moduleName

getFetchDataArgs(ssrContext, to, from) ==
    [ssrContext |-> ssrContext, from |-> from, route |-> to]

----------------------------------------------------------------------------
(* entry-client: shouldProcessRouteUpdate                                  *)

\* lodash isEqual on query values
isEqual(q1, q2) == q1 = q2

\* get(route, 'query.foo')
QueryFooOf(route) ==
    IF route.query.defined /\ "foo" \in DOMAIN route.query.kv
    THEN route.query.kv["foo"] ELSE "undefined"

\* the value a function-valued policy returns
CallPolicyFn(f, args) ==
    CASE f = "returnsTrue" -> "true"
      [] f = "returnsFalse" -> "false"
      [] f = "returnsOne" -> "1"
      [] f = "returnsUndefined" -> "undefined"
      [] f = "pathOrFooChanged" ->
            IF args.route.path # args.from.path
               \/ QueryFooOf(args.route) # QueryFooOf(args.from)
            THEN "true" ELSE "false"

\* the merge with query enabled by default
MergedPolicy_QueryDefaultTrue(c) ==
    LET o == IF c.policy.kind = "object" THEN c.policy.obj ELSE << >> IN
    [f \in PolicyFields |->
        IF f \in DOMAIN o THEN o[f]
        ELSE IF f \in { "path", "query" } THEN "true" ELSE "false"]

\* the defaults alone, the component's fields not spread over them
MergedPolicy_IgnoresComponent(c) ==
    [f \in PolicyFields |-> IF f = "path" THEN "true" ELSE "false"]

\* { path: true, query: false, hash: false, ...c.shouldProcessRouteUpdate }
MergedPolicy(c) ==
    LET o == IF c.policy.kind = "object" THEN c.policy.obj ELSE << >> IN
    [f \in PolicyFields |->
        IF f \in DOMAIN o THEN o[f]
        ELSE IF f = "path" THEN "true" ELSE "false"]

\* the gate without the route-name comparison
shouldProcessRouteUpdate_NoNameCheck(c, fetchDataArgs) ==
    LET from  == fetchDataArgs.from
        route == fetchDataArgs.route
        P     == MergedPolicy(c)
    IN  IF c.policy.kind = "function"
        THEN CallPolicyFn(c.policy.fn, fetchDataArgs) = "true"
        ELSE \/ (P["path"] = "true" /\ from.path # route.path)
             \/ (P["query"] = "true" /\ ~isEqual(from.query, route.query))
             \/ (P["hash"] = "true" /\ from.hash # route.hash)

\* the gate taking any truthy function result as true
shouldProcessRouteUpdate_Truthy(c, fetchDataArgs) ==
    LET from  == fetchDataArgs.from
        route == fetchDataArgs.route
        P     == MergedPolicy(c)
    IN  IF from.name # route.name THEN TRUE
        ELSE IF c.policy.kind = "function"
             THEN CallPolicyFn(c.policy.fn, fetchDataArgs) \notin { "false", "undefined" }
        ELSE \/ (P["path"] = "true" /\ from.path # route.path)
             \/ (P["query"] = "true" /\ ~isEqual(from.query, route.query))
             \/ (P["hash"] = "true" /\ from.hash # route.hash)

shouldProcessRouteUpdate(c, fetchDataArgs) ==
    LET from  == fetchDataArgs.from
        route == fetchDataArgs.route
        P     == MergedPolicy(c)
    IN  IF from.name # route.name THEN TRUE
        ELSE IF c.policy.kind = "function"
             THEN CallPolicyFn(c.policy.fn, fetchDataArgs) = "true"
        ELSE \/ (P["path"] = "true" /\ from.path # route.path)
             \/ (P["query"] = "true" /\ ~isEqual(from.query, route.query))
             \/ (P["hash"] = "true" /\ from.hash # route.hash)

----------------------------------------------------------------------------
(* The route table the router navigates over                               *)

CompPathFn == VuexOne(PathFnDef("testModule"), PolicyNone)
CompA      == VuexOne(LiteralDef(Str_a, "moduleA"), PolicyNone)
CompAB     == VuexOne(LiteralDef(Str_ab, "moduleAB"), PolicyNone)
CompPlain  == NoVuex(PolicyNone)
CompAQuery == VuexArray(<< LiteralDef(Str_a, "moduleA") >>,
                        PolicyObj([f \in {"query"} |-> "true"]))
CompCNever == VuexOne(LiteralDef(Str_c, "moduleC"), PolicyFn("returnsFalse"))
CompPathFnNever == VuexOne(PathFnDef("testModule"), PolicyFn("returnsFalse"))

\* vue-router's START_LOCATION
RouteStart == MkRoute("undefined", Path_root, QueryUndefined, "undefined", << >>)
RouteA     == MkRoute("undefined", Path_a, QueryUndefined, "undefined",
                      << Rec(<< CompPathFn >>) >>)
RouteB     == MkRoute("undefined", Path_b, QueryUndefined, "undefined",
                      << Rec(<< CompPathFn >>) >>)
RouteBq    == MkRoute("undefined", Path_b, QueryFoo("1"), "undefined",
                      << Rec(<< CompPathFn >>) >>)
\* nested route: parent record and child record
RouteAB    == MkRoute("undefined", Path_ab, QueryUndefined, "undefined",
                      << Rec(<< CompA >>), Rec(<< CompAB, CompPlain >>) >>)
\* a nested module name declared on its own
RouteC     == MkRoute("undefined", Path_c, QueryUndefined, "undefined",
                      << Rec(<< CompAB >>) >>)
RouteP     == MkRoute("undefined", Path_p, QueryUndefined, "undefined",
                      << Rec(<< CompPlain >>) >>)
\* a named route whose components declare the same name twice
RouteD     == MkRoute("D", Path_a, QueryUndefined, "undefined",
                      << Rec(<< CompA, CompAQuery, CompCNever >>) >>)
RouteDq    == MkRoute("D", Path_a, QueryFoo("1"), "undefined",
                      << Rec(<< CompA, CompAQuery, CompCNever >>) >>)
\* one named route record matched by two paths; its component names its module
\* after the path and never processes an update within the record
RouteE1    == MkRoute("E", Path_b, QueryUndefined, "undefined",
                      << Rec(<< CompPathFnNever >>) >>)
RouteE2    == MkRoute("E", Path_c, QueryUndefined, "undefined",
                      << Rec(<< CompPathFnNever >>) >>)
RouteBad   == Malformed(Path_b)

WellFormedRoutes == { RouteA, RouteB, RouteBq, RouteAB, RouteC, RouteP, RouteD, RouteDq,
                      RouteE1, RouteE2 }
Routes == WellFormedRoutes \cup { RouteBad }

----------------------------------------------------------------------------
(* Store (the test suites' store: a flat list of registered paths)         *)

\* a store that claims to hold every module
hasModule_Always(mods, nameArr) == TRUE

hasModule(mods, nameArr) == nameArr \in mods
registerModule(mods, nameArr) == mods \cup { nameArr }
unregisterModule(mods, nameArr) == mods \ { nameArr }

----------------------------------------------------------------------------
(* store.state: a tree of values, each node an object or a primitive       *)

Seg_a == << Str_a >>
Seg_ab == << Str_a, Str_b >>
Seg_b == << Str_b >>

\* root is the kind of store.state itself; nodes maps a key path to the kind of
\* the value found there
Tree(r, n) == [root |-> r, nodes |-> n]
NoNodes == [p \in {} |-> "undefined"]

\* the store has no state property
TreeMissing   == Tree("undefined", NoNodes)
\* state: {}
TreeEmpty     == Tree("object", NoNodes)
\* state: { a: {...} }, as retained from server rendering
TreeA         == Tree("object", [p \in { Seg_a } |-> "object"])
\* state: { a: null }
TreeANull     == Tree("object", [p \in { Seg_a } |-> "null"])
\* state: { a: 0 }
TreeAZero     == Tree("object", [p \in { Seg_a } |-> "zero"])
\* state: { a: 's' }
TreeAString   == Tree("object", [p \in { Seg_a } |-> "string"])
\* state: { a: { b: {...} }, b: {...} }
TreeAB        == Tree("object", [p \in { Seg_a, Seg_ab, Seg_b } |-> "object"])
\* state: { a: { b: null } }
TreeABNull    == Tree("object", [p \in { Seg_a, Seg_ab } |->
                                    IF p = Seg_ab THEN "null" ELSE "object"])

StateTrees == { TreeMissing, TreeEmpty, TreeA, TreeANull, TreeAZero, TreeAString,
                TreeAB, TreeABNull }

\* JavaScript truthiness of a value of the given kind
Truthy(kind) == kind \in { "object", "string" }

\* acc[k] for the value of kind accKind found at accPath
Property(st, accPath, accKind, k) ==
    IF accKind = "object" /\ Append(accPath, k) \in DOMAIN st.nodes
    THEN st.nodes[Append(accPath, k)]
    ELSE "undefined"

\* nameArr.reduce((acc, k) => (acc ? acc[k] : null), store.state)
RECURSIVE ReduceState(_, _, _, _)
ReduceState(st, accPath, accKind, keys) ==
    IF keys = << >> THEN accKind
    ELSE ReduceState(st, Append(accPath, Head(keys)),
                     IF Truthy(accKind) THEN Property(st, accPath, accKind, Head(keys))
                     ELSE "null",
                     Tail(keys))

getModuleState(st, nameArr) == ReduceState(st, << >>, st.root, nameArr)

\* value != null, with a strict comparison that lets undefined through
IsNotNullish_Strict(kind) == kind # "null"

\* value != null
IsNotNullish(kind) == kind \notin { "null", "undefined" }

----------------------------------------------------------------------------
(* utils: safelyRegisterModule                                             *)

\* safelyRegisterModule without the store.hasModule check
safelyRegisterModule_NoCheck(mods, st, name) ==
    LET nameArr == Split(name) IN
    [modules |-> registerModule(mods, nameArr),
     entry |-> [path |-> nameArr, had |-> hasModule(mods, nameArr), called |-> TRUE,
                preserveState |-> IsNotNullish(getModuleState(st, nameArr)),
                threw |-> FALSE]]

\* returns the store after the attempt and what the attempt did
safelyRegisterModule(mods, st, name) ==
    LET nameArr == Split(name) IN
    IF hasModule(mods, nameArr)
    THEN [modules |-> mods,
          entry |-> [path |-> nameArr, had |-> TRUE, called |-> FALSE,
                     preserveState |-> FALSE, threw |-> FALSE]]
    ELSE [modules |-> registerModule(mods, nameArr),
          entry |-> [path |-> nameArr, had |-> FALSE, called |-> TRUE,
                     preserveState |-> IsNotNullish(getModuleState(st, nameArr)),
                     threw |-> FALSE]]

\* .flatMap(c => c.vuex)
RECURSIVE FlatMapVuex(_)
FlatMapVuex(cs) ==
    IF cs = << >> THEN << >>
    ELSE (IF Head(cs).isArray THEN Head(cs).vuex ELSE << Head(cs).vuex[1] >>)
         \o FlatMapVuex(Tail(cs))

\* the forEach undoing its registrations when a call throws
RECURSIVE RegisterEach_Rollback(_, _, _, _, _, _)
RegisterEach_Rollback(defs, route, mods, st, log, throwAt) ==
    IF defs = << >> THEN [modules |-> mods, log |-> log, threw |-> FALSE]
    ELSE LET r == safelyRegisterModule(mods, st, getModuleName(Head(defs), route))
             calls == Cardinality({ i \in DOMAIN log : log[i].called }) IN
         IF r.entry.called /\ calls + 1 = throwAt
         THEN [modules |-> mods \ { log[i].path : i \in { j \in DOMAIN log : log[j].called } },
               log |-> Append(log, [r.entry EXCEPT !.threw = TRUE]),
               threw |-> TRUE]
         ELSE RegisterEach_Rollback(Tail(defs), route, r.modules, st, Append(log, r.entry),
                                    throwAt)

\* .forEach(vuexModuleDef => safelyRegisterModule(store, getModuleName(vuexModuleDef, route), ...))
\* the throwAt-th store.registerModule call of the run throws (0: none does); the
\* throw leaves the store as it was and ends the forEach
RECURSIVE RegisterEach(_, _, _, _, _, _)
RegisterEach(defs, route, mods, st, log, throwAt) ==
    IF defs = << >> THEN [modules |-> mods, log |-> log, threw |-> FALSE]
    ELSE LET r == safelyRegisterModule(mods, st, getModuleName(Head(defs), route))
             calls == Cardinality({ i \in DOMAIN log : log[i].called }) IN
         IF r.entry.called /\ calls + 1 = throwAt
         THEN [modules |-> mods,
               log |-> Append(log, [r.entry EXCEPT !.threw = TRUE]),
               threw |-> TRUE]
         ELSE RegisterEach(Tail(defs), route, r.modules, st, Append(log, r.entry), throwAt)

\* .map(vuexModuleDef => getModuleName(vuexModuleDef, route))
RECURSIVE MapModuleNames(_, _)
MapModuleNames(defs, route) ==
    IF defs = << >> THEN << >>
    ELSE << getModuleName(Head(defs), route) >> \o MapModuleNames(Tail(defs), route)

HasVuex(c) == c.hasVuex

----------------------------------------------------------------------------
(* entry-client: useRouteVuexModulesClient                                 *)

\* getMatchedComponents(to).filter(c => shouldProcessRouteUpdate(c, fetchDataArgs))
\* the matched components, unfiltered
GatePassing_All(to, from) == getMatchedComponents(to)

\* getMatchedComponents(to).filter(c => shouldProcessRouteUpdate(c, fetchDataArgs))
GatePassing(to, from) ==
    SelectSeq(getMatchedComponents(to),
              LAMBDA c : shouldProcessRouteUpdate(c, getFetchDataArgs("null", to, from)))

\* the declarations the beforeResolve hook registers
DefsToRegister(to, from) ==
    FlatMapVuex(
        SelectSeq(SelectSeq(getMatchedComponents(to), HasVuex),
                  LAMBDA c : shouldProcessRouteUpdate(c, getFetchDataArgs("null", to, from))))

\* afterEach without its early return
ShouldProcess_Always(to, from) == TRUE

\* afterEach: getMatchedComponents(to).filter(gate).length > 0
ShouldProcess(to, from) == Len(GatePassing(to, from)) > 0

\* toModuleNames / fromModuleNames
ModuleNamesOf(route) ==
    MapModuleNames(FlatMapVuex(SelectSeq(getMatchedComponents(route), HasVuex)), route)

\* the active check against the arriving route only
StillActive_ToOnly(toModuleNames, fromModuleNames, name) ==
    name \in Range(toModuleNames)

\* the active check against the route just left only
StillActive_FromOnly(toModuleNames, fromModuleNames, name) ==
    name \in Range(fromModuleNames)

\* [...toModuleNames, ...fromModuleNames].includes(name)
StillActive(toModuleNames, fromModuleNames, name) ==
    name \in Range(toModuleNames \o fromModuleNames)

\* the while loop over queuedRemovalModules.pop()
RECURSIVE Drain(_, _, _, _, _, _)
Drain(queue, toModuleNames, fromModuleNames, mods, requeueModules, unreg) ==
    IF queue = << >>
    THEN [modules |-> mods, requeueModules |-> requeueModules, unreg |-> unreg]
    ELSE LET name    == queue[Len(queue)]
             rest    == SubSeq(queue, 1, Len(queue) - 1)
             nameArr == Split(name)
         IN  IF StillActive(toModuleNames, fromModuleNames, name)
             THEN Drain(rest, toModuleNames, fromModuleNames, mods,
                        Append(requeueModules, name), unreg)
             ELSE IF hasModule(mods, nameArr)
             THEN Drain(rest, toModuleNames, fromModuleNames,
                        unregisterModule(mods, nameArr), requeueModules,
                        Append(unreg, [name |-> name, path |-> nameArr]))
             ELSE Drain(rest, toModuleNames, fromModuleNames, mods, requeueModules, unreg)

\* the next queue without the requeued names
NextRouteRemovals_NoRequeue(requeueModules, fromModuleNames) ==
    Uniq(fromModuleNames)

\* the next queue without the names of the route just left
NextRouteRemovals_NoFrom(requeueModules, fromModuleNames) ==
    Uniq(requeueModules)

\* uniq([...requeueModules, ...fromModuleNames])
NextRouteRemovals(requeueModules, fromModuleNames) ==
    Uniq(requeueModules \o fromModuleNames)

\* the next queue left in insertion order
SortedRouteRemovals_Unsorted(nextRouteRemovals) == nextRouteRemovals

\* sortBy(nextRouteRemovals, [m => m.split('/').length])
SortedRouteRemovals(nextRouteRemovals) == SortByDepth(nextRouteRemovals)

\* nameArr q is nested below nameArr p
IsProperPrefix(p, q) == Len(p) < Len(q) /\ SubSeq(q, 1, Len(p)) = p

\* catch (e) { logger.error(...); next(e); }: the calls of next the catch block makes
RegistrationCatch_Swallow(e) == << VUndefined >>

RegistrationCatch(e) == << e >>

\* the statements of the beforeResolve hook
BeforeResolveBody(to, throwAt, thrown) ==
    /\ pc \in { "boot", "idle" }
    \* the thrown value is an input only of a run in which registerModule throws
    /\ throwAt = 0 => thrown = VErr(Msg_error)
    /\ hook' = "beforeResolve"
    /\ hTo' = to
    /\ hFrom' = current
    /\ prevQueue' = queuedRemovalModules
    /\ prevModules' = modules
    /\ unregLog' = << >>
    /\ IF GetMatchedThrows(to)
       THEN \* getMatchedComponents(to) throws
            /\ throwAt = 0
            /\ nextLog' = RegistrationCatch(ErrMatched)
            /\ thrownLog' = << ErrMatched >>
            /\ regLog' = << >>
            /\ pc' = "idle"
            /\ UNCHANGED << modules, pending >>
       ELSE LET r == RegisterEach(DefsToRegister(to, current), to, modules, state, << >>,
                                  throwAt) IN
            /\ throwAt > 0 => r.threw
            /\ modules' = r.modules
            /\ regLog' = r.log
            /\ IF r.threw
               THEN /\ nextLog' = RegistrationCatch(thrown)
                    /\ thrownLog' = << thrown >>
                    /\ pc' = "idle"
                    /\ UNCHANGED pending
               ELSE /\ nextLog' = << VUndefined >>
                    /\ thrownLog' = << >>
                    /\ pending' = to
                    /\ pc' = "resolved"
    /\ UNCHANGED << current, state, owed, early, inverted >>

\* the hook emptying the removal queue
BeforeResolveHook_ClearsQueue(to, throwAt, thrown) ==
    /\ BeforeResolveBody(to, throwAt, thrown)
    /\ queuedRemovalModules' = << >>

\* router.beforeResolve((to, from, next) => ...): no statement of the hook
\* refers to queuedRemovalModules
BeforeResolveHook(to, throwAt, thrown) ==
    /\ BeforeResolveBody(to, throwAt, thrown)
    /\ UNCHANGED queuedRemovalModules

\* the hook on a router that has no other hooks
BeforeResolve(to, throwAt, thrown) ==
    /\ BeforeResolveHook(to, throwAt, thrown)
    /\ UNCHANGED << gateVars, fetchVars, devVars >>

\* router.afterEach((to, from) => ...), run when the navigation commits
AfterEach ==
    /\ pc = "resolved"
    /\ LET to   == pending
           from == current
           toModuleNames   == ModuleNamesOf(to)
           fromModuleNames == ModuleNamesOf(from)
           d == Drain(queuedRemovalModules, toModuleNames, fromModuleNames, modules,
                      << >>, << >>)
           removed == { d.unreg[i].name : i \in DOMAIN d.unreg }
           kept    == Range(d.requeueModules)
           active  == Range(toModuleNames) \cup Range(fromModuleNames)
       IN  /\ hook' = "afterEach"
           /\ hTo' = to
           /\ hFrom' = from
           /\ prevQueue' = queuedRemovalModules
           /\ prevModules' = modules
           /\ regLog' = << >>
           /\ current' = to
           /\ pc' = "idle"
           /\ IF ~ShouldProcess(to, from)
              THEN /\ unregLog' = << >>
                   /\ inverted' = {}
                   /\ UNCHANGED << queuedRemovalModules, modules, owed, early >>
              ELSE /\ modules' = d.modules
                   /\ unregLog' = [i \in DOMAIN d.unreg |-> d.unreg[i].path]
                   /\ queuedRemovalModules' =
                          SortedRouteRemovals(NextRouteRemovals(d.requeueModules,
                                                                fromModuleNames))
                   /\ owed' = (owed \ { m \in owed : m \notin active })
                                 \cup Range(fromModuleNames)
                   /\ inverted' = { pr \in early : pr[2] \in removed }
                   /\ early' = { pr \in early : pr[2] \in kept }
                                  \cup { pr \in removed \X kept :
                                           IsProperPrefix(Split(pr[1]), Split(pr[2])) }
    /\ UNCHANGED << pending, nextLog, thrownLog, state >>
    /\ UNCHANGED << gateVars, fetchVars, devVars >>

----------------------------------------------------------------------------
(* entry-server: useRouteVuexModulesServer                                 *)

\* one-shot registration for router.currentRoute, before the client takes over
UseRouteVuexModulesServer(route) ==
    /\ pc = "boot"
    /\ LET defs == FlatMapVuex(SelectSeq(getMatchedComponents(route), HasVuex))
           r    == RegisterEach(defs, route, modules, state, << >>, 0)
       IN  /\ modules' = r.modules
           /\ regLog' = r.log
    /\ hook' = "server"
    /\ hTo' = route
    /\ hFrom' = current
    /\ prevQueue' = queuedRemovalModules
    /\ prevModules' = modules
    /\ unregLog' = << >>
    /\ pc' = "idle"
    /\ UNCHANGED << current, pending, queuedRemovalModules, state, nextLog, thrownLog, owed,
                    early, inverted >>
    /\ UNCHANGED << gateVars, fetchVars, devVars >>

----------------------------------------------------------------------------
(* entry-client: performance marks and measures                            *)

PERF_PREFIX   == << "u", "r", "b", "n", "p", "e", "r", "f" >>
Str_start     == << "s", "t", "a", "r", "t" >>
Str_undefined == << "u", "n", "d", "e", "f", "i", "n", "e", "d" >>
Str_other     == << "o", "t", "h", "e", "r" >>
Str_junk      == << "j", "u", "n", "k" >>
Str_beforeResolve == << "b", "e", "f", "o", "r", "e", "R", "e", "s", "o", "l", "v", "e" >>
Str_middlewareComplete ==
    << "m", "i", "d", "d", "l", "e", "w", "a", "r", "e", "-", "c", "o", "m", "p", "l", "e",
       "t", "e" >>
Str_fetchDataComplete ==
    << "f", "e", "t", "c", "h", "D", "a", "t", "a", "-", "c", "o", "m", "p", "l", "e", "t",
       "e" >>

\* the text of a measure name passed to perfMeasure
MeasureText(name) ==
    CASE name = "beforeResolve"       -> Str_beforeResolve
      [] name = "middleware-complete" -> Str_middlewareComplete
      [] name = "fetchData-complete"  -> Str_fetchDataComplete
      [] OTHER                        -> Str_junk

\* `${route.name}` in a template literal
TemplateText(n) ==
    CASE n = "undefined" -> Str_undefined
      [] n = "a"         -> Str_a
      [] n = "b"         -> Str_b
      [] n = "c"         -> Str_c
      [] OTHER           -> << n >>

StartsWith(s, p) == Len(s) >= Len(p) /\ SubSeq(s, 1, Len(p)) = p
EndsWith(s, p)   == Len(s) >= Len(p) /\ SubSeq(s, Len(s) - Len(p) + 1, Len(s)) = p

\* String.prototype.split('|')
SplitBar(s) ==
    LET bars == { i \in 1..Len(s) : s[i] = "|" }
        cut(k) == IF k = 0 THEN 0
                  ELSE IF k > Cardinality(bars) THEN Len(s) + 1
                  ELSE CHOOSE i \in bars : Cardinality({ j \in bars : j < i }) = k - 1
    IN  [k \in 1..(Cardinality(bars) + 1) |-> SubSeq(s, cut(k - 1) + 1, cut(k) - 1)]

\* window.performance: null, undefined, an object without getEntriesByType, or
\* the timing API
PerfApis == { "null", "undefined", "noFunction", "available" }

\* window.performance.getEntriesByType throws a TypeError: window.performance is
\* undefined, which passes the !== null test
PerfAvailableThrows(api) == api = "undefined"

\* window.performance !== null && isFunction(window.performance.getEntriesByType)
perfAvailable(api) == api = "available"

Err_TypeError == VErr(<< "T", "y", "p", "e", "E", "r", "r", "o", "r" >>)

MarkEntry(name) == [entryType |-> "mark", name |-> name, markName |-> << >>]
MeasureEntry(name, markName) ==
    [entryType |-> "measure", name |-> name, markName |-> markName]

getEntriesByType(entries, type) == SelectSeq(entries, LAMBDA m : m.entryType = type)

\* window.performance.clearMarks(name) / clearMeasures(name)
clearEntries(entries, type, names) ==
    SelectSeq(entries, LAMBDA m : ~(m.entryType = type /\ m.name \in names))

PrefixNames(entries, type) ==
    { m.name : m \in { x \in Range(getEntriesByType(entries, type)) :
                          StartsWith(x.name, PERF_PREFIX) } }

StartMarks(entries) ==
    SelectSeq(getEntriesByType(entries, "mark"),
              LAMBDA m : StartsWith(m.name, PERF_PREFIX) /\ EndsWith(m.name, Str_start))

\* getCurrentPerfMark(): the first such mark, or none
HasCurrentPerfMark(entries) == StartMarks(entries) # << >>
getCurrentPerfMark(entries) == Head(StartMarks(entries))

StartMarkName(to, from) ==
    PERF_PREFIX \o << "|" >> \o TemplateText(from.name) \o << "-", ">" >>
        \o TemplateText(to.name) \o << "|" >> \o Str_start

\* perfInit with the measures of the previous navigation left in place
perfInit_KeepMeasures(entries, to, from) ==
    Append(clearEntries(entries, "mark", PrefixNames(entries, "mark")),
           MarkEntry(StartMarkName(to, from)))

perfInit(entries, to, from) ==
    LET e1 == clearEntries(entries, "mark", PrefixNames(entries, "mark"))
        e2 == clearEntries(e1, "measure", PrefixNames(e1, "measure"))
    IN  Append(e2, MarkEntry(StartMarkName(to, from)))

\* perfMeasure(name): the value returned ("none" when it throws) and the entries
perfMeasure(api, entries, name) ==
    IF PerfAvailableThrows(api)
    THEN [threw |-> TRUE, ret |-> "none", entries |-> entries]
    ELSE IF ~perfAvailable(api) \/ ~HasCurrentPerfMark(entries)
    THEN [threw |-> FALSE, ret |-> "false", entries |-> entries]
    ELSE LET mark   == getCurrentPerfMark(entries)
             parts  == SplitBar(mark.name)
             prefix == parts[1]
             route  == IF Len(parts) >= 2 THEN parts[2] ELSE Str_undefined
         IN  [threw |-> FALSE, ret |-> "true",
              entries |-> Append(entries,
                                 MeasureEntry(prefix \o << "|" >> \o route \o << "|" >>
                                                  \o MeasureText(name),
                                              mark.name))]

----------------------------------------------------------------------------
(* The fetch pipeline: values                                              *)

\* JSON.stringify(v) for the values it serialises
JSONStringify(v) ==
    CASE v.t = "string" -> << "\"" >> \o v.s \o << "\"" >>
      [] v.t = "object" -> << "{", "\"" >> \o v.k \o << "\"", ":", "\"" >> \o v.s
                              \o << "\"", "}" >>
      [] v.t = "null"   -> << "n", "u", "l", "l" >>
      [] OTHER          -> << >>

\* JSON.stringify(v) throws
StringifyThrows(v) == v.t = "circular"

\* the catch block passing a string rejection on as it is
NormalizeError_StringUnwrapped(e) ==
    IF e.t \in { "Error", "string" } THEN e
    ELSE IF StringifyThrows(e) THEN VErr(Msg_unknown)
    ELSE VErr(JSONStringify(e))

\* the value the client catch block passes to next
NormalizeError(e) ==
    IF e.t = "Error" THEN e
    ELSE IF e.t = "string" THEN VErr(e.s)
    ELSE IF StringifyThrows(e) THEN VErr(Msg_unknown)
    ELSE VErr(JSONStringify(e))

\* results.find(r => r != null), undefined when there is none
RECURSIVE FirstNonNull(_)
FirstNonNull(results) ==
    IF results = << >> THEN VUndefined
    ELSE IF Head(results).t \notin { "undefined", "null" } THEN Head(results)
    ELSE FirstNonNull(Tail(results))

----------------------------------------------------------------------------
(* The fetch pipeline: routes and handlers                                 *)

OptsHandlers == { "middleware", "globalFetchData", "postMiddleware" }
FetchIds     == { "fetchData1", "fetchData2", "fetchDataFrom" }
HandlerIds   == OptsHandlers \cup FetchIds

\* a component with a policy and, when fetch is TRUE, a fetchData method named id
FetchComp(id, p, fetch) ==
    [hasVuex |-> FALSE, isArray |-> FALSE, vuex |-> << >>, policy |-> p,
     id |-> id, fetchData |-> fetch]

FCompFrom  == FetchComp("fetchDataFrom", PolicyNone, TRUE)
FComp1     == FetchComp("fetchData1", PolicyNone, TRUE)
FComp2     == FetchComp("fetchData2", PolicyNone, TRUE)
FComp2Q    == FetchComp("fetchData2", PolicyObj([f \in {"query"} |-> "true"]), TRUE)
FCompNone  == FetchComp("fetchData2", PolicyNone, FALSE)

\* the route every modelled pipeline run leaves
FRouteFrom == MkRoute("a", Path_a, QueryUndefined, "undefined",
                      << Rec(<< FCompFrom >>) >>)
FRouteB    == MkRoute("b", Path_b, QueryUndefined, "undefined",
                      << Rec(<< FComp1 >>), Rec(<< FComp2 >>) >>)
FRouteB1   == MkRoute("b", Path_b, QueryUndefined, "undefined",
                      << Rec(<< FComp1, FCompNone >>) >>)
\* /a -> /a?foo=1: the first component fails the gate, the second passes
FRouteAq   == MkRoute("a", Path_a, QueryFoo("1"), "undefined",
                      << Rec(<< FComp1, FComp2Q >>) >>)
\* /a -> /a?foo=1 with default policies only: no component passes
FRouteSkip == MkRoute("a", Path_a, QueryFoo("1"), "undefined",
                      << Rec(<< FComp1 >>) >>)

FetchRoutes == { FRouteB, FRouteB1, FRouteAq, FRouteSkip }

\* the value a fetch call resolves with: nothing, null, or its own redirect
RedirectOf(h) == VStr(<< "/" >> \o (IF h = "globalFetchData" THEN << "g" >>
                                     ELSE IF h = "fetchData1" THEN << "1" >>
                                     ELSE << "2" >>))
ResolveValues(h) ==
    IF h \in { "middleware", "postMiddleware" } THEN { VUndefined }
    ELSE { VUndefined, VNull, RedirectOf(h) }

\* the values a call rejects with
RejectValues(h) ==
    IF h \in { "middleware", "postMiddleware" } THEN { VErr(Msg_error), VStr(Msg_error) }
    ELSE { VErr(Msg_error), VStr(Msg_error), VObj(Msg_error, Msg_oops), VNull, VCircular }

----------------------------------------------------------------------------
(* The fetch pipeline: one run of the async function                       *)

NotCalled == [st |-> "notCalled", v |-> VUndefined]

\* the from of the server's context record, which is built without one
UndefinedRoute == [t |-> "undefined"]

\* no pipeline run has started; the hooks are wired in a window without the
\* timing API
IdleRun ==
    [variant   |-> "none",
     pc        |-> "idle",
     opts      |-> {},
     to        |-> RouteStart,
     from      |-> RouteStart,
     args      |-> getFetchDataArgs("null", RouteStart, RouteStart),
     comps     |-> << >>,
     calls     |-> [h \in HandlerIds |-> NotCalled],
     events    |-> << >>,
     nextCalls |-> << >>,
     promise   |-> [st |-> "none", v |-> VUndefined],
     failure   |-> << >>,
     api       |-> "null",
     entries   |-> << >>,
     wired     |-> "yes",
     hasBeforeEach |-> FALSE,
     eachNext  |-> << >>,
     perfCalls |-> << >>]

\* the handler invoked with a record that has lost its from
Invoke_NoFrom(r, h) ==
    [r EXCEPT !.calls[h] = [st |-> "pending", v |-> VUndefined],
              !.events = Append(@, [e |-> "call", h |-> h,
                                    args |-> [r.args EXCEPT !.from = UndefinedRoute]])]

\* h(fetchDataArgs): the handler is invoked and returns a pending promise
Invoke(r, h) ==
    [r EXCEPT !.calls[h] = [st |-> "pending", v |-> VUndefined],
              !.events = Append(@, [e |-> "call", h |-> h, args |-> r.args])]

RECURSIVE InvokeAll(_, _)
InvokeAll(r, hs) ==
    IF hs = << >> THEN r ELSE InvokeAll(Invoke(r, Head(hs)), Tail(hs))

\* the array without the globalFetchData entry
Step2Slots_NoGlobal(r) ==
    << "none" >> \o
    [i \in 1..Len(r.comps) |-> IF r.comps[i].fetchData THEN r.comps[i].id ELSE "none"]

\* the array handed to Promise.all: the handler of each entry, "none" where
\* opts.globalFetchData or c.fetchData is missing
Step2Slots(r) ==
    << IF "globalFetchData" \in r.opts THEN "globalFetchData" ELSE "none" >> \o
    [i \in 1..Len(r.comps) |-> IF r.comps[i].fetchData THEN r.comps[i].id ELSE "none"]

Step2Handlers(r) == SelectSeq(Step2Slots(r), LAMBDA h : h # "none")

\* the resolved values in the order in which the calls completed
Step2Results_CompletionOrder(r) ==
    LET done == SelectSeq(r.events, LAMBDA ev : ev.e = "resolved" /\ ev.h \in Range(Step2Slots(r)))
    IN  [i \in DOMAIN done |-> done[i].args[1]]

\* results, in the order of the array
Step2Results(r) ==
    [i \in DOMAIN Step2Slots(r) |->
        IF Step2Slots(r)[i] = "none" THEN VUndefined ELSE r.calls[Step2Slots(r)[i]].v]

\* next(v)
ClientNext(r, v) ==
    [r EXCEPT !.nextCalls = Append(@, v),
              !.events = Append(@, [e |-> "next", h |-> "next", args |-> << v >>]),
              !.pc = "done"]

\* the server promise rejected with the normalised error
ServerReject_Normalized(r, e) ==
    [r EXCEPT !.promise = [st |-> "rejected", v |-> NormalizeError(e)], !.pc = "done"]

\* the async function's promise rejects with the value an await threw
ServerReject(r, e) ==
    [r EXCEPT !.promise = [st |-> "rejected", v |-> e], !.pc = "done"]

\* the end of the try block / of the async function
Finish(r) ==
    IF r.variant = "client"
    THEN ClientNext(r, FirstNonNull(Step2Results(r)))
    ELSE [r EXCEPT !.promise = [st |-> "resolved", v |-> VUndefined], !.pc = "done"]

\* a catch block that logs the error and returns
Fail_Swallow(r, e) == [r EXCEPT !.failure = Append(@, e), !.pc = "done"]

\* an await throws e: the client's catch block, the server's rejection
Fail(r, e) ==
    LET f == [r EXCEPT !.failure = Append(@, e)] IN
    IF r.variant = "client" THEN ClientNext(f, NormalizeError(e)) ELSE ServerReject(f, e)

\* one call perfMeasure(name) against the window of run r, logged in perfCalls
CallPerfMeasure(r, name) ==
    LET m == perfMeasure(r.api, r.entries, name) IN
    [r EXCEPT !.entries = m.entries,
              !.perfCalls = Append(@, [name |-> name, ret |-> m.ret, threw |-> m.threw,
                                       before |-> r.entries, after |-> m.entries])]

\* the pipeline without its perfMeasure calls
MeasureStep_Skip(r, name) == r

\* perfMeasure(name) in the client hook; the server function has no such call
MeasureStep(r, name) ==
    IF r.variant # "client" THEN r
    ELSE [CallPerfMeasure(r, name) EXCEPT
            !.events = IF perfMeasure(r.api, r.entries, name).ret = "true"
                       THEN Append(@, [e |-> "measure", h |-> name, args |-> << >>])
                       ELSE @]

\* the perfMeasure call of the client hook throws
MeasureThrows(r) == r.variant = "client" /\ PerfAvailableThrows(r.api)

\* perfMeasure('fetchData-complete');
\* if (opts && opts.postMiddleware) { await opts.postMiddleware(fetchDataArgs); }
EnterPost(r) ==
    LET m == MeasureStep(r, "fetchData-complete") IN
    IF MeasureThrows(r) THEN Fail(m, Err_TypeError)
    ELSE IF "postMiddleware" \in r.opts
    THEN [Invoke(m, "postMiddleware") EXCEPT !.pc = "awaitPost"]
    ELSE Finish(m)

\* perfMeasure('middleware-complete');
\* await Promise.all([...]): every handler of the array is invoked
EnterFetch(r) ==
    LET m == MeasureStep(r, "middleware-complete") IN
    IF MeasureThrows(r) THEN Fail(m, Err_TypeError)
    ELSE IF Step2Handlers(r) = << >>
    THEN EnterPost(m)
    ELSE [InvokeAll(m, Step2Handlers(r)) EXCEPT !.pc = "awaitAll"]

\* the middleware invoked and not awaited
EnterMiddleware_NoAwait(r) ==
    IF "middleware" \in r.opts
    THEN EnterFetch(Invoke(r, "middleware"))
    ELSE EnterFetch(r)

\* if (opts && opts.middleware) { await opts.middleware(fetchDataArgs); }
EnterMiddleware(r) ==
    IF "middleware" \in r.opts
    THEN [Invoke(r, "middleware") EXCEPT !.pc = "awaitMiddleware"]
    ELSE EnterFetch(r)

\* the promise of call h settles
Settled(r, h, kind, v) ==
    [r EXCEPT !.calls[h] = [st |-> kind, v |-> v],
              !.events = Append(@, [e |-> kind, h |-> h, args |-> << v >>])]

\* the aggregate wait ending with the first resolved entry
AllResolved_AnyResolved(r) ==
    \E i \in DOMAIN Step2Handlers(r) : r.calls[Step2Handlers(r)[i]].st = "resolved"

\* Promise.all resolves when every entry has resolved
AllResolved(r) ==
    \A i \in DOMAIN Step2Handlers(r) : r.calls[Step2Handlers(r)[i]].st = "resolved"

\* a rejected entry counted as a result
Step2Rejected_Continue(r, e) ==
    IF \A i \in DOMAIN Step2Handlers(r) : r.calls[Step2Handlers(r)[i]].st # "pending"
    THEN EnterPost(r) ELSE r

\* the rejection surfacing only when no entry is pending any more
Step2Rejected_WaitAll(r, e) ==
    IF \E i \in DOMAIN Step2Handlers(r) : r.calls[Step2Handlers(r)[i]].st = "pending"
    THEN r ELSE Fail(r, e)

\* Promise.all rejects with the first rejection
Step2Rejected(r, e) == Fail(r, e)

\* the continuation of the async function when call h settles
OnSettle(r, h, kind, v) ==
    LET s == Settled(r, h, kind, v) IN
    CASE r.pc = "awaitMiddleware" /\ h = "middleware" ->
            IF kind = "resolved" THEN EnterFetch(s) ELSE Fail(s, v)
      [] r.pc = "awaitAll" /\ h \in Range(Step2Handlers(r)) ->
            IF kind = "rejected" THEN Step2Rejected(s, v)
            ELSE IF AllResolved(s) THEN EnterPost(s) ELSE s
      [] r.pc = "awaitPost" /\ h = "postMiddleware" ->
            IF kind = "resolved" THEN Finish(s) ELSE Fail(s, v)
      [] OTHER -> s

\* router.beforeResolve(async (to, from, next) => ...) up to its first await
ClientStart(r, to, from, opts) ==
    LET r0 == [r EXCEPT !.variant = "client", !.opts = opts, !.to = to,
                        !.from = from,
                        !.args = getFetchDataArgs("null", to, from)]
    IN  IF GetMatchedThrows(to) THEN Fail(r0, ErrMatched)
        ELSE LET components == GatePassing(to, from) IN
             IF Len(components) = 0 THEN ClientNext(r0, VUndefined)
             ELSE LET r1 == [r0 EXCEPT !.comps = components] IN
                  IF MeasureThrows(r1)
                  THEN Fail(MeasureStep(r1, "beforeResolve"), Err_TypeError)
                  ELSE EnterMiddleware(MeasureStep(r1, "beforeResolve"))

\* useFetchDataServer(ssrContext, app, router, store, opts) up to its first await
ServerStart(route, opts) ==
    EnterMiddleware([IdleRun EXCEPT !.variant = "server", !.opts = opts, !.to = route,
                                    !.args = getFetchDataArgs("ssrContext", route,
                                                              UndefinedRoute),
                                    !.comps = getMatchedComponents(route),
                                    !.promise = [st |-> "pending", v |-> VUndefined]])

\* useFetchDataClient(app, router, store, logger, opts): the hooks are registered,
\* the beforeEach hook only if (perfAvailable()); the test itself may throw
Wire(r) ==
    IF PerfAvailableThrows(r.api) THEN [r EXCEPT !.wired = "threw"]
    ELSE [r EXCEPT !.wired = "yes", !.hasBeforeEach = perfAvailable(r.api)]

\* router.beforeEach((to, from, next) => ...)
BeforeEachRun(r, to, from) ==
    IF GetMatchedThrows(to)
    THEN [r EXCEPT !.pc = "aborted", !.to = to, !.from = from,
                   !.failure = Append(@, ErrMatched)]
    ELSE [r EXCEPT !.pc = "navigating", !.to = to, !.from = from,
                   !.entries = IF Len(GatePassing(to, from)) > 0
                               THEN perfInit(@, to, from) ELSE @,
                   !.eachNext = Append(@, VUndefined)]

UseFetchDataClientWire ==
    /\ run.wired = "no"
    /\ run' = Wire(run)
    /\ shadow' = Wire(shadow)
    /\ UNCHANGED << lifecycleVars, gateVars, overlapVars, devVars >>

\* the beforeEach hook of a navigation; no such hook exists without the timing API
BeforeEach(to, from) ==
    /\ run.wired = "yes" /\ run.hasBeforeEach
    /\ run.variant = "none" /\ run.pc = "idle"
    /\ run' = BeforeEachRun(run, to, from)
    /\ UNCHANGED << shadow, lifecycleVars, gateVars, overlapVars, devVars >>

\* the beforeResolve hook of a navigation, after its beforeEach hook if any
UseFetchDataClient(to, from, opts) ==
    /\ run.wired = "yes"
    /\ run.variant = "none"
    /\ IF run.hasBeforeEach
       THEN run.pc = "navigating" /\ to = run.to /\ from = run.from
       ELSE run.pc = "idle"
    /\ run' = ClientStart(run, to, from, opts)
    /\ shadow' = ClientStart(shadow, to, from, opts)
    /\ UNCHANGED << lifecycleVars, gateVars, overlapVars, devVars >>

UseFetchDataServer(route, opts) ==
    /\ run.wired = "yes"
    /\ run.variant = "none" /\ run.pc = "idle"
    /\ run' = ServerStart(route, opts)
    /\ shadow' = ServerStart(route, opts)
    /\ UNCHANGED << lifecycleVars, gateVars, overlapVars, devVars >>

\* a pending handler promise resolves or rejects
Settle(h, kind, v) ==
    /\ run.calls[h].st = "pending"
    /\ run' = OnSettle(run, h, kind, v)
    /\ shadow' = IF shadow.calls[h].st = "pending" THEN OnSettle(shadow, h, kind, v)
                 ELSE shadow
    /\ UNCHANGED << lifecycleVars, gateVars, overlapVars, devVars >>

\* perfMeasure(name) called from outside the hooks (it is exported)
PerfMeasureCall(name) ==
    /\ run.variant = "none" /\ run.pc = "idle"
    /\ run.perfCalls = << >>
    /\ run' = CallPerfMeasure(run, name)
    /\ UNCHANGED << shadow, lifecycleVars, gateVars, overlapVars, devVars >>

OverlapIdle == other = IdleRun /\ delivered = << >>

FetchIdle == run = IdleRun /\ shadow = IdleRun /\ OverlapIdle

----------------------------------------------------------------------------
(* Both hook sets on one router                                            *)

\* a component of the route table that also has a fetchData method named id
WithFetch(c, id) ==
    [hasVuex |-> c.hasVuex, isArray |-> c.isArray, vuex |-> c.vuex, policy |-> c.policy,
     id |-> id, fetchData |-> TRUE]

\* a component of the route table without a fetchData method
WithoutFetch(c) ==
    [hasVuex |-> c.hasVuex, isArray |-> c.isArray, vuex |-> c.vuex, policy |-> c.policy,
     id |-> "none", fetchData |-> FALSE]

AppRouteA  == MkRoute("undefined", Path_a, QueryUndefined, "undefined",
                      << Rec(<< WithFetch(CompA, "fetchData1") >>) >>)
\* /a -> /a?foo=1: the default policy ignores the query
AppRouteAq == MkRoute("undefined", Path_a, QueryFoo("1"), "undefined",
                      << Rec(<< WithFetch(CompA, "fetchData1") >>) >>)
AppRouteAB == MkRoute("undefined", Path_ab, QueryUndefined, "undefined",
                      << Rec(<< WithFetch(CompA, "fetchData1") >>),
                         Rec(<< WithoutFetch(CompAB) >>) >>)
AppRouteP  == MkRoute("undefined", Path_p, QueryUndefined, "undefined",
                      << Rec(<< WithFetch(CompPlain, "fetchData2") >>) >>)

AppRoutes == { AppRouteA, AppRouteAq, AppRouteAB, AppRouteP }

\* the run record of a new navigation: the window and the wiring stay, the
\* locals and the logs of the previous hook invocations are gone
NewNavigation(r) ==
    [IdleRun EXCEPT !.api = r.api, !.entries = r.entries, !.wired = r.wired,
                    !.hasBeforeEach = r.hasBeforeEach]

\* no navigation is under way
NoNavigation ==
    /\ pc \in { "boot", "idle" }
    /\ run.pc \in { "idle", "done", "cancelled" }

\* the router starts a navigation: the beforeEach hook of useFetchDataClient
AppBeforeEach(to) ==
    /\ run.hasBeforeEach
    /\ NoNavigation
    /\ run' = BeforeEachRun(NewNavigation(run), to, current)
    /\ UNCHANGED << shadow, overlapVars, lifecycleVars, gateVars, devVars >>

\* the router runs its beforeResolve hooks in the order of their registration:
\* the registration hook of useRouteVuexModulesClient and, once that has called
\* next(), the hook of useFetchDataClient up to its first await
AppBeforeResolve(to, throwAt, thrown, opts) ==
    /\ IF run.hasBeforeEach
       THEN pc \in { "boot", "idle" } /\ run.pc = "navigating" /\ to = run.to
       ELSE NoNavigation
    /\ BeforeResolveHook(to, throwAt, thrown)
    /\ LET r == IF run.hasBeforeEach THEN run ELSE NewNavigation(run) IN
       run' = IF pc' = "resolved"
              THEN ClientStart(r, to, current, opts)
              ELSE [r EXCEPT !.pc = "cancelled", !.to = to, !.from = current]
    /\ UNCHANGED << shadow, overlapVars, gateVars, devVars >>

\* a pending handler promise of the navigation's pipeline run settles
AppSettle(h, kind, v) ==
    /\ run.variant = "client"
    /\ run.calls[h].st = "pending"
    /\ run' = OnSettle(run, h, kind, v)
    /\ UNCHANGED << shadow, overlapVars, lifecycleVars, gateVars, devVars >>

\* the pipeline called next() with no value: the router commits the navigation
\* and runs the afterEach hook
AppAfterEach ==
    /\ run.pc = "done"
    /\ run.nextCalls = << VUndefined >>
    /\ AfterEach

\* the pipeline called next with an error or a redirect: the router drops the
\* navigation and runs no afterEach hook
AppAbort ==
    /\ pc = "resolved"
    /\ run.pc = "done"
    /\ run.nextCalls # << VUndefined >>
    /\ pc' = "idle"
    /\ UNCHANGED << current, pending, queuedRemovalModules, modules, state, hook, hTo, hFrom,
                    prevQueue, prevModules, regLog, unregLog, nextLog, thrownLog, owed,
                    early, inverted >>
    /\ UNCHANGED << gateVars, fetchVars, devVars >>

----------------------------------------------------------------------------
(* Overlapping invocations of the fetch hook                               *)

\* the two navigations: `other` is the run of the first, `run` of the second
Navs == { 1, 2 }
NavText(i) == IF i = 1 THEN "1" ELSE "2"
RunOf(i) == IF i = 1 THEN other ELSE run

\* the async function of run r is suspended at an await
IsSuspended(r) ==
    r.variant = "client" /\ r.pc \in { "awaitMiddleware", "awaitAll", "awaitPost" }

\* the values the calls of navigation i settle with: each names its call and
\* its navigation
OwnResolveValues(i, h) ==
    IF h \in { "middleware", "postMiddleware" } THEN { VUndefined }
    ELSE { VUndefined, VStr(<< "/", h, NavText(i) >>) }
OwnRejectValues(i, h) == { VErr(<< h, NavText(i) >>) }

\* next kept in a variable that every invocation of the hook assigns
NextOf_Shared(i) == IF run.variant = "client" THEN 2 ELSE 1

\* next is a parameter of the async arrow function: each invocation calls the
\* function the router passed to it
NextOf(i) == i

\* a step of the hooks of navigation i, its run becoming r2: the calls of next
\* it makes are delivered, and window.performance is one timeline for both runs
OverlapStep(i, r2) ==
    LET made == SubSeq(r2.nextCalls, Len(RunOf(i).nextCalls) + 1, Len(r2.nextCalls)) IN
    /\ delivered' = delivered \o [k \in DOMAIN made |-> [nav |-> NextOf(i), v |-> made[k]]]
    /\ IF i = 1
       THEN other' = r2 /\ run' = [run EXCEPT !.entries = r2.entries]
       ELSE run' = r2 /\ other' = [other EXCEPT !.entries = r2.entries]
    /\ UNCHANGED << shadow, lifecycleVars, gateVars, devVars >>

\* the beforeEach hook of navigation i; the second navigation starts once the
\* fetch hook of the first has been invoked
OverlapBeforeEach(i, to) ==
    /\ RunOf(i).hasBeforeEach
    /\ RunOf(i).variant = "none" /\ RunOf(i).pc = "idle"
    /\ i = 2 => other.variant = "client"
    /\ OverlapStep(i, BeforeEachRun(RunOf(i), to, FRouteFrom))

\* the fetch hook of navigation i up to its first await; that of the second
\* navigation is invoked while the first run is suspended
OverlapStart(i, to, opts) ==
    /\ RunOf(i).variant = "none"
    /\ IF RunOf(i).hasBeforeEach
       THEN RunOf(i).pc = "navigating" /\ to = RunOf(i).to
       ELSE RunOf(i).pc = "idle"
    /\ i = 2 => IsSuspended(other)
    /\ OverlapStep(i, ClientStart(RunOf(i), to, FRouteFrom, opts))

\* a pending call of navigation i settles
OverlapSettle(i, h, kind, v) ==
    /\ RunOf(i).variant = "client"
    /\ RunOf(i).calls[h].st = "pending"
    /\ OverlapStep(i, OnSettle(RunOf(i), h, kind, v))

----------------------------------------------------------------------------
(* setup-dev-server: setupDevServer                                        *)

\* a variable never assigned, a file never written
DevUndefined == [t |-> "undefined", n |-> 0]

\* JSON.parse(mfs.readFileSync(file, 'utf-8')) / fs.readFileSync(templatePath, 'utf-8'):
\* the value read from the n-th version of a file
ReadFile(n) == [t |-> "object", n |-> n]

\* reading a file the build has not written throws
ReadThrows(n) == n = 0

\* a value in a condition: undefined is falsy, an object is truthy
DevTruthy(v) == v.t # "undefined"

\* the state when setupDevServer returns: the template has been read, both
\* compilers are running, nothing has been built
DevStart ==
    [serverBundle   |-> DevUndefined,
     template       |-> ReadFile(1),
     clientManifest |-> DevUndefined,
     ready          |-> [st |-> "pending", v |-> DevUndefined],
     cbLog          |-> << >>,
     manifestFile   |-> 0,
     bundleFile     |-> 0,
     templateFile   |-> 1,
     clientBuilds   |-> 0,
     serverBuilds   |-> 0,
     templateChanges |-> 0,
     last           |-> "setup",
     thrown         |-> FALSE]

DevIdle == dev = DevStart

\* update with either build result being enough
update_Either(d) ==
    IF DevTruthy(d.serverBundle) \/ DevTruthy(d.clientManifest)
    THEN [d EXCEPT !.ready = IF @.st = "pending"
                              THEN [st |-> "resolved", v |-> d.clientManifest] ELSE @,
                   !.cbLog = Append(@, [serverBundle |-> d.serverBundle,
                                        template |-> d.template,
                                        clientManifest |-> d.clientManifest])]
    ELSE d

\* const update = () => { if (serverBundle && clientManifest) { ready(...); cb(...); } }
\* resolving a promise that is already resolved changes nothing
update(d) ==
    IF DevTruthy(d.serverBundle) /\ DevTruthy(d.clientManifest)
    THEN [d EXCEPT !.ready = IF @.st = "pending"
                              THEN [st |-> "resolved", v |-> d.clientManifest] ELSE @,
                   !.cbLog = Append(@, [serverBundle |-> d.serverBundle,
                                        template |-> d.template,
                                        clientManifest |-> d.clientManifest])]
    ELSE d

\* the error test that lets every build through
HasErrors_Never(errors) == FALSE

\* stats.toJson().errors.length
HasErrors(errors) == errors

\* chokidar.watch(config.templatePath).on('change', ...)
TemplateChange ==
    /\ dev.templateChanges < MaxBuilds
    /\ LET d == [dev EXCEPT !.templateChanges = @ + 1, !.templateFile = @ + 1,
                            !.last = "template", !.thrown = FALSE]
       IN  dev' = update([d EXCEPT !.template = ReadFile(d.templateFile)])
    /\ UNCHANGED << lifecycleVars, gateVars, fetchVars >>

\* clientCompiler.hooks.done.tap('setup-dev-server', (stats) => ...); a build with
\* errors emits no file (NoEmitOnErrorsPlugin)
ClientDone(errors) ==
    /\ dev.clientBuilds < MaxBuilds
    /\ LET d == [dev EXCEPT !.clientBuilds = @ + 1,
                            !.manifestFile = IF errors THEN @ ELSE dev.clientBuilds + 1,
                            !.last = IF errors THEN "clientErrors" ELSE "client",
                            !.thrown = FALSE]
       IN  dev' = IF HasErrors(errors) THEN d
                  ELSE IF ReadThrows(d.manifestFile) THEN [d EXCEPT !.thrown = TRUE]
                  ELSE update([d EXCEPT !.clientManifest = ReadFile(d.manifestFile)])
    /\ UNCHANGED << lifecycleVars, gateVars, fetchVars >>

\* serverCompiler.watch({}, (err, stats) => ...): err is a failure of the
\* compiler itself, rethrown by the callback
ServerWatch(err, errors) ==
    /\ dev.serverBuilds < MaxBuilds
    /\ err => ~errors
    /\ LET d == [dev EXCEPT !.serverBuilds = @ + 1,
                            !.bundleFile = IF err \/ errors THEN @ ELSE dev.serverBuilds + 1,
                            !.last = IF err THEN "serverErr"
                                     ELSE IF errors THEN "serverErrors" ELSE "server",
                            !.thrown = FALSE]
       IN  dev' = IF err THEN [d EXCEPT !.thrown = TRUE]
                  ELSE IF HasErrors(errors) THEN d
                  ELSE IF ReadThrows(d.bundleFile) THEN [d EXCEPT !.thrown = TRUE]
                  ELSE update([d EXCEPT !.serverBundle = ReadFile(d.bundleFile)])
    /\ UNCHANGED << lifecycleVars, gateVars, fetchVars >>

----------------------------------------------------------------------------
(* Specification of the module lifecycle                                   *)

GateIdle ==
    /\ gC = CompPlain
    /\ gFrom = RouteStart
    /\ gRoute = RouteStart
    /\ gResult = "none"

LifecycleInit ==
    /\ current = RouteStart
    /\ pending = RouteStart
    /\ pc = "boot"
    /\ queuedRemovalModules = << >>
    /\ modules = {}
    /\ hook = "none"
    /\ hTo = RouteStart
    /\ hFrom = RouteStart
    /\ prevQueue = << >>
    /\ prevModules = {}
    /\ regLog = << >>
    /\ unregLog = << >>
    /\ nextLog = << >>
    /\ thrownLog = << >>
    /\ owed = {}
    /\ early = {}
    /\ inverted = {}

\* the client store starts from state: {}
Init == LifecycleInit /\ state = TreeEmpty /\ GateIdle /\ FetchIdle /\ DevIdle

Next ==
    \/ \E to \in Routes, throwAt \in 0..MaxThrowAt, thrown \in ThrownValues :
          BeforeResolve(to, throwAt, thrown)
    \/ AfterEach
    \/ \E route \in WellFormedRoutes : UseRouteVuexModulesServer(route)

Spec == Init /\ [][Next]_vars

----------------------------------------------------------------------------
(* Specification of registration against a store with retained state      *)

RegistrationInit ==
    LifecycleInit /\ state \in StateTrees /\ GateIdle /\ FetchIdle /\ DevIdle

\* the server registration, then the client's first pre-commit hooks
RegistrationNext ==
    \/ \E to \in WellFormedRoutes : BeforeResolve(to, 0, VErr(Msg_error))
    \/ \E route \in WellFormedRoutes : UseRouteVuexModulesServer(route)

SpecRegistration == RegistrationInit /\ [][RegistrationNext]_vars

----------------------------------------------------------------------------
(* Specification of direct gate evaluations                                *)

GateNames  == { "undefined", "A" }
GatePaths  == { Path_a, Path_b }
GateHashes == { "undefined", "null", "#foo" }
GateRoutes == { MkRoute(n, p, q, h, << >>) :
                  n \in GateNames, p \in GatePaths, q \in Queries, h \in GateHashes }
GateComponents == { NoVuex(p) : p \in Policies }

GateInit ==
    /\ LifecycleInit
    /\ state = TreeEmpty
    /\ gC \in GateComponents
    /\ gFrom \in GateRoutes
    /\ gRoute \in GateRoutes
    /\ gResult = "none"
    /\ FetchIdle
    /\ DevIdle

\* one call shouldProcessRouteUpdate(c, { from, route, ... })
EvalGate ==
    /\ gResult = "none"
    /\ gResult' = IF shouldProcessRouteUpdate(gC, getFetchDataArgs("null", gRoute, gFrom))
                  THEN "true" ELSE "false"
    /\ UNCHANGED << gC, gFrom, gRoute >>
    /\ UNCHANGED << lifecycleVars, fetchVars, devVars >>

GateNext == EvalGate

SpecGate == GateInit /\ [][GateNext]_vars

----------------------------------------------------------------------------
(* Specification of the fetch pipeline                                     *)

OptsChoices == SUBSET OptsHandlers

FetchInit == LifecycleInit /\ state = TreeEmpty /\ GateIdle /\ FetchIdle /\ DevIdle

FetchNext ==
    \/ \E to \in FetchRoutes \cup { RouteBad }, opts \in OptsChoices :
          UseFetchDataClient(to, FRouteFrom, opts)
    \/ \E route \in FetchRoutes, opts \in OptsChoices : UseFetchDataServer(route, opts)
    \/ \E h \in HandlerIds :
          \/ \E v \in ResolveValues(h) : Settle(h, "resolved", v)
          \/ \E v \in RejectValues(h) : Settle(h, "rejected", v)

SpecFetch == FetchInit /\ [][FetchNext]_vars

----------------------------------------------------------------------------
(* Specification of the instrumented client pipeline                       *)

\* the timeline when the hooks are wired: empty, entries of other code, the
\* entries of an earlier trace, a prefixed mark that is no start mark
TimelineForeign == << MarkEntry(Str_other), MeasureEntry(Str_junk, Str_other) >>
TimelineStale ==
    << MarkEntry(Str_other),
       MarkEntry(StartMarkName(FRouteFrom, FRouteB)),
       MeasureEntry(PERF_PREFIX \o << "|", "b", "-", ">", "a", "|" >> \o Str_junk,
                    StartMarkName(FRouteFrom, FRouteB)) >>
TimelineNoStart == << MarkEntry(PERF_PREFIX \o << "|" >> \o Str_junk) >>
Timelines == { << >>, TimelineForeign, TimelineStale, TimelineNoStart }

PerfInit ==
    /\ LifecycleInit /\ state = TreeEmpty /\ GateIdle /\ OverlapIdle /\ DevIdle
    /\ shadow = [IdleRun EXCEPT !.wired = "no"]
    /\ \E api \in PerfApis, entries \in Timelines :
          /\ (api # "available") => entries = << >>
          /\ run = [IdleRun EXCEPT !.wired = "no", !.api = api, !.entries = entries]

PerfResolveValues(h) == ResolveValues(h) \ { VNull }
PerfRejectValues == { VStr(Msg_error) }

PerfNext ==
    \/ UseFetchDataClientWire
    \/ \E to \in FetchRoutes \cup { RouteBad } : BeforeEach(to, FRouteFrom)
    \/ \E to \in FetchRoutes \cup { RouteBad }, opts \in OptsChoices :
          UseFetchDataClient(to, FRouteFrom, opts)
    \/ \E h \in HandlerIds :
          \/ \E v \in PerfResolveValues(h) : Settle(h, "resolved", v)
          \/ \E v \in PerfRejectValues : Settle(h, "rejected", v)
    \/ \E name \in { "junk", "beforeResolve" } : PerfMeasureCall(name)

SpecPerf == PerfInit /\ [][PerfNext]_vars

----------------------------------------------------------------------------
(* Specification of both hook sets on one router                           *)

AppOpts == { {}, OptsHandlers }

AppResolveValues(h) == ResolveValues(h) \ { VNull }
AppRejectValues == { VErr(Msg_error) }

\* useRouteVuexModulesClient and useFetchDataClient have been called, in this
\* order, in a window with or without the timing API
AppInit ==
    /\ LifecycleInit /\ state = TreeEmpty /\ GateIdle /\ OverlapIdle /\ DevIdle
    /\ shadow = IdleRun
    /\ \E api \in { "null", "available" } : run = Wire([IdleRun EXCEPT !.api = api])

AppNext ==
    \/ \E to \in AppRoutes : AppBeforeEach(to)
    \/ \E to \in AppRoutes, throwAt \in 0..MaxThrowAt, opts \in AppOpts :
          AppBeforeResolve(to, throwAt, VErr(Msg_error), opts)
    \/ \E h \in HandlerIds :
          \/ \E v \in AppResolveValues(h) : AppSettle(h, "resolved", v)
          \/ \E v \in AppRejectValues : AppSettle(h, "rejected", v)
    \/ AppAfterEach
    \/ AppAbort

SpecApp == AppInit /\ [][AppNext]_vars

\* some pending call of the navigation's pipeline settles
AppSettleAny ==
    \E h \in HandlerIds :
        \/ \E v \in AppResolveValues(h) : AppSettle(h, "resolved", v)
        \/ \E v \in AppRejectValues : AppSettle(h, "rejected", v)

\* both hook sets on one router in a window without the timing API, where
\* useFetchDataClient registers no beforeEach hook
AppFairInit ==
    /\ LifecycleInit /\ state = TreeEmpty /\ GateIdle /\ OverlapIdle /\ DevIdle
    /\ shadow = IdleRun
    /\ run = Wire([IdleRun EXCEPT !.api = "null"])

AppFairNext ==
    \/ \E to \in AppRoutes, throwAt \in 0..MaxThrowAt, opts \in AppOpts :
          AppBeforeResolve(to, throwAt, VErr(Msg_error), opts)
    \/ AppSettleAny
    \/ AppAfterEach
    \/ AppAbort

\* every invoked middleware and fetch call settles: a pending promise does not
\* stay pending for ever
SpecAppFair == AppFairInit /\ [][AppFairNext]_vars /\ WF_vars(AppSettleAny)

----------------------------------------------------------------------------
(* Specification of overlapping invocations of the fetch hook              *)

OverlapRoutes == { FRouteB1, FRouteAq }
OverlapOpts == { {}, OptsHandlers }

OverlapInit ==
    /\ LifecycleInit /\ state = TreeEmpty /\ GateIdle /\ DevIdle
    /\ shadow = IdleRun
    /\ delivered = << >>
    /\ \E api \in { "null", "available" } :
          /\ run = Wire([IdleRun EXCEPT !.api = api])
          /\ other = run

OverlapNext ==
    \E i \in Navs :
        \/ \E to \in OverlapRoutes : OverlapBeforeEach(i, to)
        \/ \E to \in OverlapRoutes, opts \in OverlapOpts : OverlapStart(i, to, opts)
        \/ \E h \in HandlerIds :
              \/ \E v \in OwnResolveValues(i, h) : OverlapSettle(i, h, "resolved", v)
              \/ \E v \in OwnRejectValues(i, h) : OverlapSettle(i, h, "rejected", v)

SpecOverlap == OverlapInit /\ [][OverlapNext]_vars

----------------------------------------------------------------------------
(* Specification of the dev server                                         *)

DevInit == LifecycleInit /\ state = TreeEmpty /\ GateIdle /\ FetchIdle /\ DevIdle

DevNext ==
    \/ TemplateChange
    \/ \E errors \in BOOLEAN : ClientDone(errors)
    \/ \E err \in BOOLEAN, errors \in BOOLEAN : ServerWatch(err, errors)

SpecDev == DevInit /\ [][DevNext]_vars

----------------------------------------------------------------------------
(* Vocabulary of the properties                                            *)

\* every component of route.matched
ComponentsOf(route) == UNION { Range(m.components) : m \in Range(route.matched) }

\* the module names the matched components of a route declare, resolved against it
Declared(route) ==
    { getModuleName(d, route) :
        d \in UNION { Range(c.vuex) : c \in { x \in ComponentsOf(route) : x.hasVuex } } }

\* the store paths of the names active on either endpoint of the last hook
ActivePaths == { Split(n) : n \in Declared(hTo) \cup Declared(hFrom) }

\* no matched component of `to` passes the gate
NoGatePass(to, from) ==
    \A c \in ComponentsOf(to) :
        ~shouldProcessRouteUpdate(c, getFetchDataArgs("null", to, from))

RegisterCalls == { i \in DOMAIN regLog : regLog[i].called }

----------------------------------------------------------------------------
(* Module lifecycle properties                                             *)

\* C1: during a post-commit (afterEach) invocation, unregisterModule is never
\* called for the path of a module name declared by a matched component of the
\* arriving route or of the route just left.
C1_NoActiveUnregistered ==
    hook = "afterEach" =>
        \A i \in DOMAIN unregLog : unregLog[i] \notin ActivePaths

\* a drain that unregistered something while it met a queued, registered module
\* that the route just left still declares
C1_Witness ==
    /\ hook = "afterEach"
    /\ unregLog # << >>
    /\ \E n \in Range(prevQueue) :
          /\ n \in Declared(hFrom)
          /\ n \notin Declared(hTo)
          /\ Split(n) \in prevModules

\* C2: a name that was queued before a post-commit invocation and is absent
\* afterwards was active on neither endpoint; equivalently every queued name
\* still active on an endpoint is queued again when the hook returns.
C2_QueueLeavesOnlyInactive ==
    hook = "afterEach" =>
        \A n \in Range(prevQueue) :
            /\ n \notin Range(queuedRemovalModules)
                  => n \notin Declared(hTo) \cup Declared(hFrom)
            /\ n \in Declared(hTo) \cup Declared(hFrom)
                  => n \in Range(queuedRemovalModules)

\* one drain that both drops an inactive name and requeues a name that only the
\* arriving route declares
C2_Witness ==
    /\ hook = "afterEach"
    /\ \E n \in Range(prevQueue) : n \notin Range(queuedRemovalModules)
    /\ \E n \in Range(prevQueue) :
          /\ n \in Declared(hTo)
          /\ n \notin Declared(hFrom)
          /\ n \in Range(queuedRemovalModules)

\* C3: a module declared by the route left in a processed transition stays
\* registered through that transition's post-commit hook and through every
\* later hook, until the post-commit hook of the next processed transition
\* whose endpoints both do not declare it; that hook unregisters it if the
\* store still has it.
C3_DeferredRemoval ==
    [][ LET leaving  == IF pc = "resolved" /\ ShouldProcess(pending, current)
                        THEN Declared(current) ELSE {}
            active   == Declared(pending) \cup Declared(current)
            releases == pc = "resolved" /\ ShouldProcess(pending, current)
        IN  \A m \in owed \cup leaving :
              /\ (Split(m) \in modules /\ Split(m) \notin modules')
                    => (releases /\ m \notin active)
              /\ (releases /\ m \in owed /\ m \notin active /\ Split(m) \in modules)
                    => (/\ Split(m) \notin modules'
                        /\ Split(m) \in Range(unregLog')
                        /\ m \notin owed')
      ]_vars

\* a drain that unregisters a module left behind earlier while the modules of
\* the route it has just left all stay registered
C3_Witness ==
    /\ hook = "afterEach"
    /\ unregLog # << >>
    /\ Declared(hFrom) # {}
    /\ \A m \in Declared(hFrom) : Split(m) \in prevModules /\ Split(m) \in modules
    /\ Declared(hFrom) \subseteq owed

\* C4: deregistration proceeds child before parent: when the queue holds a path
\* and a path nested below it and both are removed, the nested path is
\* unregistered first; within one drain the unregister calls have
\* non-increasing depth.
C4_ChildBeforeParent ==
    /\ inverted = {}
    /\ hook = "afterEach" =>
          \A i, j \in DOMAIN unregLog : i < j => Len(unregLog[i]) >= Len(unregLog[j])

\* C5: when no matched component of the destination passes the gate, the
\* pre-commit hook calls registerModule zero times and calls next with no value,
\* and the post-commit hook leaves the removal queue and the store unchanged.
C5_GateSkipIsNoOp ==
    (hTo.hasMatched /\ NoGatePass(hTo, hFrom)) =>
        /\ hook = "beforeResolve" =>
              /\ RegisterCalls = {}
              /\ nextLog = << VUndefined >>
              /\ modules = prevModules
        /\ hook = "afterEach" =>
              /\ queuedRemovalModules = prevQueue
              /\ modules = prevModules
              /\ unregLog = << >>

\* a gate-skipped post-commit hook with a queued, registered module that neither
\* endpoint declares
C5_Witness ==
    /\ hook = "afterEach"
    /\ NoGatePass(hTo, hFrom)
    /\ hTo # hFrom
    /\ \E n \in Range(queuedRemovalModules) :
          /\ n \notin Declared(hTo) \cup Declared(hFrom)
          /\ Split(n) \in modules

\* C10: registerModule is called at most once for a path while it stays
\* registered: no call is made for a path the store already has (from before the
\* hook or from an earlier call of the same hook), and a skipped attempt does not
\* change the store.
C10_RegisterAtMostOnce ==
    hook \in { "beforeResolve", "server" } =>
        /\ \A i \in DOMAIN regLog :
              LET earlier == { regLog[j].path : j \in { k \in RegisterCalls : k < i } }
                  present == regLog[i].path \in prevModules \cup earlier
              IN  regLog[i].called <=> ~present
        /\ modules = prevModules
                        \cup { regLog[i].path : i \in { k \in RegisterCalls : ~regLog[k].threw } }

\* two declarations of one hook resolve to the same path: the first is
\* registered, the second skipped
C10_Witness ==
    /\ hook \in { "beforeResolve", "server" }
    /\ \E i, j \in DOMAIN regLog :
          /\ i < j
          /\ regLog[i].path = regLog[j].path
          /\ regLog[i].called
          /\ ~regLog[j].called

\* the kind of value found by reading store.state key by key along path
LookupKind(st, path) ==
    IF st.root = "object" /\ path \in DOMAIN st.nodes THEN st.nodes[path] ELSE "undefined"

\* C11: whenever safelyRegisterModule calls registerModule, preserveState is true
\* exactly when reading store.state key by key along the path yields a value
\* that is neither null nor undefined; a missing state tree or a missing
\* intermediate key gives false.
C11_PreserveState ==
    \A i \in RegisterCalls :
        regLog[i].preserveState <=> LookupKind(state, regLog[i].path) \notin { "null", "undefined" }

\* one hook run registers 'a' over the retained falsy value 0 (preserveState
\* true) and 'a/b' below it, where the lookup finds nothing (false)
C11_Witness ==
    /\ state = TreeAZero
    /\ \E i, j \in RegisterCalls :
          /\ regLog[i].path = Seg_a
          /\ regLog[i].preserveState
          /\ regLog[j].path = Seg_ab
          /\ ~regLog[j].preserveState

\* the segments of a path written with '/' between them
RECURSIVE Join(_)
Join(path) ==
    IF path = << >> THEN << >>
    ELSE IF Len(path) = 1 THEN path[1]
    ELSE path[1] \o << "/" >> \o Join(Tail(path))

\* path is the segment sequence of name
IsSegmentsOf(path, name) ==
    /\ Join(path) = name
    /\ \A i \in DOMAIN path : "/" \notin Range(path[i])

\* C12: the path passed to hasModule, registerModule and unregisterModule is the
\* resolved module name split on '/'; a function-valued moduleName is resolved
\* against the route being evaluated: the destination at registration, the left
\* route for the names queued for removal.
C12_PathIsSplitName ==
    /\ hook \in { "beforeResolve", "server" } =>
          \A i \in DOMAIN regLog :
              \E n \in Declared(hTo) : IsSegmentsOf(regLog[i].path, n)
    /\ hook = "afterEach" =>
          /\ \A i \in DOMAIN unregLog :
                \E n \in Range(prevQueue) : IsSegmentsOf(unregLog[i], n)
          /\ ~NoGatePass(hTo, hFrom) => Declared(hFrom) \subseteq Range(queuedRemovalModules)

\* arriving at the nested route from /a: 'a' was registered under the name its
\* function gave for /a, and 'a/b' is now registered as ['a', 'b']
C12_Witness ==
    /\ hook = "beforeResolve"
    /\ hFrom = RouteA
    /\ hTo = RouteAB
    /\ Seg_a \in prevModules
    /\ Len(regLog) = 2
    /\ regLog[2].path = << << "a" >>, << "b" >> >>
    /\ regLog[2].called

\* the last pre-commit registration hook met a throw
RegistrationThrew ==
    \/ GetMatchedThrows(hTo)
    \/ \E i \in DOMAIN regLog : regLog[i].threw

\* C13: if enumerating the destination's matched components or registering a
\* module throws during the pre-commit registration hook, the hook calls next
\* once, with the thrown error, and the navigation does not continue.
C13_ThrowCancelsNavigation ==
    (hook = "beforeResolve" /\ RegistrationThrew) =>
        /\ Len(thrownLog) = 1
        /\ nextLog = << thrownLog[1] >>
        /\ pc # "resolved"

\* the second registerModule call of a hook run throws an Error
C13_Witness ==
    /\ hook = "beforeResolve"
    /\ Len(regLog) = 2
    /\ ~regLog[1].threw
    /\ regLog[2].threw
    /\ thrownLog = << VErr(Msg_error) >>

\* C14: the value the pre-commit registration hook passes to next on failure is
\* always an Error: a thrown value that is not an Error is wrapped.
C14_NextGetsErrorShape ==
    (hook = "beforeResolve" /\ RegistrationThrew) =>
        \A i \in DOMAIN nextLog : nextLog[i].t = "Error"

\* the number of '/'-separated segments of a module name
SegmentCount(n) == Cardinality({ i \in DOMAIN n : n[i] = "/" }) + 1

NoDuplicates(q) == Cardinality(Range(q)) = Len(q)

\* the last hook was a post-commit hook that processed its transition
ProcessedAfterEach == hook = "afterEach" /\ ~NoGatePass(hTo, hFrom)

\* C29: after a processed post-commit hook the queue holds exactly the
\* previously queued names still active on an endpoint and the module names of
\* the route just left, each once, in non-decreasing depth; the queue never has
\* duplicates, and it changes in no other step, so it keeps the names of the
\* route most recently left in a processed transition.
C29_QueueIsSortedUnion ==
    /\ [](NoDuplicates(queuedRemovalModules))
    /\ [](ProcessedAfterEach =>
            /\ Range(queuedRemovalModules) =
                  { n \in Range(prevQueue) : n \in Declared(hTo) \cup Declared(hFrom) }
                      \cup Declared(hFrom)
            /\ \A i, j \in DOMAIN queuedRemovalModules :
                  i < j => SegmentCount(queuedRemovalModules[i])
                              <= SegmentCount(queuedRemovalModules[j]))
    /\ [][ queuedRemovalModules' # queuedRemovalModules
             => (pc = "resolved" /\ ~NoGatePass(pending, current)) ]_vars

\* a processed hook requeued a nested name and queued the shallower name of the
\* route just left in front of it
C29_Witness ==
    /\ ProcessedAfterEach
    /\ \E n \in Range(prevQueue) :
          /\ n \in Range(queuedRemovalModules)
          /\ n \notin Declared(hFrom)
          /\ \E m \in Declared(hFrom) : SegmentCount(m) < SegmentCount(n)

\* the queued names of the last hook that were active on neither endpoint
InactiveQueued ==
    { n \in Range(prevQueue) : n \notin Declared(hTo) \cup Declared(hFrom) }

\* C30: in a drain, a queued name active on neither endpoint is unregistered
\* exactly when the store holds a module at its path; a name whose module the
\* store does not hold is dropped from the queue and the store is left as it
\* was, so unregisterModule is never called for an absent module.
C30_UnregisterOnlyPresent ==
    ProcessedAfterEach =>
        /\ \A n \in InactiveQueued :
              /\ (Split(n) \in Range(unregLog)) <=> (Split(n) \in prevModules)
              /\ n \notin Range(queuedRemovalModules)
        /\ \A i \in DOMAIN unregLog : unregLog[i] \in prevModules
        /\ modules = prevModules \ { Split(n) : n \in InactiveQueued }

\* a drain dropped a queued name whose module the store did not hold, with no
\* unregisterModule call and the store unchanged
C30_Witness ==
    /\ ProcessedAfterEach
    /\ \E n \in InactiveQueued : Split(n) \notin prevModules
    /\ unregLog = << >>
    /\ modules = prevModules

\* C32: the post-commit hook never unregisters a path that is a proper ancestor
\* of the path of a module active on the arriving route or on the route just
\* left.
C32_NoAncestorOfActiveUnregistered ==
    hook = "afterEach" =>
        \A i \in DOMAIN unregLog :
            \A q \in ActivePaths : ~IsProperPrefix(unregLog[i], q)

\* the names the last pre-commit hook set out to register, in order
HookDeclarations == MapModuleNames(DefsToRegister(hTo, hFrom), hTo)

\* the last hook was a pre-commit hook in which store.registerModule threw
RegisterThrew == hook = "beforeResolve" /\ \E i \in DOMAIN regLog : regLog[i].threw

\* C37: when registerModule throws partway through a pre-commit hook, the
\* modules that hook registered before the throw stay registered, the
\* declaration that threw and the declarations after it are not registered by
\* the hook, and the removal queue is as it was.
C37_NoRollbackOnThrow ==
    RegisterThrew =>
        LET k == Len(regLog) IN
        /\ regLog[k].threw
        /\ \A i \in 1..(k - 1) : ~regLog[i].threw /\ Split(HookDeclarations[i]) \in modules
        /\ \A i \in k..Len(HookDeclarations) :
              Split(HookDeclarations[i]) \in modules
                 => Split(HookDeclarations[i]) \in
                       prevModules \cup { Split(HookDeclarations[j]) : j \in 1..(k - 1) }
        /\ prevModules \subseteq modules
        /\ queuedRemovalModules = prevQueue

\* the second registerModule call of a hook throws after the first registered
\* its module, while names wait in the removal queue
C37_Witness ==
    /\ RegisterThrew
    /\ \E i \in 1..(Len(regLog) - 1) :
          /\ regLog[i].called
          /\ regLog[i].path \notin prevModules
          /\ regLog[i].path \in modules
    /\ queuedRemovalModules # << >>

\* C34: once the pre-commit and the post-commit hook of a committed transition
\* have run, every module a matched component of the arrived route declares is
\* registered.
C34_ArrivedModulesRegistered ==
    hook = "afterEach" =>
        \A n \in Declared(current) : Split(n) \in modules

\* the module names declared by the matched components of the arrived route
\* that pass the gate for the last transition
DeclaredPassing ==
    { getModuleName(d, hTo) :
        d \in UNION { Range(c.vuex) :
                        c \in { x \in Range(GatePassing(hTo, hFrom)) : x.hasVuex } } }

\* C34 (amended): once both hooks of a committed transition have run, every
\* module declared by a matched component of the arrived route that passes the
\* gate is registered; a component that fails the gate has nothing registered
\* for it by this transition.
C34_GatePassingRegistered ==
    hook = "afterEach" =>
        \A n \in DeclaredPassing : Split(n) \in modules

\* the router returns to a route whose module is still in the removal queue
C34_Witness ==
    /\ hook = "afterEach"
    /\ \E n \in DeclaredPassing :
          /\ n \in Range(prevQueue)
          /\ n \notin Declared(hFrom)
          /\ Split(n) \in modules

----------------------------------------------------------------------------
(* Fetch pipeline properties                                               *)

\* an event of the given kind for handler h precedes position i of the run's log
EventBefore(kind, h, i) ==
    \E j \in 1..(i - 1) : run.events[j].e = kind /\ run.events[j].h = h

Step2Ids == { "globalFetchData" } \cup FetchIds

\* the run went past the gate (client) or is a server run
Processed == run.variant = "server" \/ (run.variant = "client" /\ run.comps # << >>)

CallCount(h) ==
    Cardinality({ i \in DOMAIN run.events :
                    run.events[i].e = "call" /\ run.events[i].h = h })

\* the run has reached its Promise.all
Step2Begun ==
    Processed /\ ("middleware" \in run.opts => run.calls["middleware"].st = "resolved")

\* the fetchData methods the components cs define
DefinesFetch(cs) == { cs[i].id : i \in { j \in DOMAIN cs : cs[j].fetchData } }

\* the context record of the run, as its variant builds it
FetchContext ==
    IF run.variant = "client" THEN getFetchDataArgs("null", run.to, run.from)
    ELSE getFetchDataArgs("ssrContext", run.to, UndefinedRoute)

\* every handler invoked so far received the context record
CalledWithContext ==
    \A i \in DOMAIN run.events :
        run.events[i].e = "call" => run.events[i].args = FetchContext

\* C16, as stated: once step 2 of a processed run has begun, globalFetchData (if
\* present) and the fetchData of every matched component of the destination
\* that defines one have been invoked exactly once with the context, and the
\* fetchData of the component of the route being left has not.
C16_EveryMatchedFetched ==
    Step2Begun =>
        /\ ("globalFetchData" \in run.opts) => CallCount("globalFetchData") = 1
        /\ \A h \in DefinesFetch(getMatchedComponents(run.to)) : CallCount(h) = 1
        /\ CallCount("fetchDataFrom") = 0
        /\ CalledWithContext

\* the components whose fetchData step 2 runs: all matched components on the
\* server, the matched components passing the gate on the client
FetchedComponents ==
    IF run.variant = "server" THEN getMatchedComponents(run.to)
    ELSE GatePassing(run.to, run.from)

\* C16, amended: once step 2 has begun, globalFetchData (if present) and the
\* fetchData of every matched destination component that defines one and, on
\* the client, passes the gate have been invoked exactly once with the
\* context; no other fetchData is invoked, and none before step 2.
C16_GatePassingFetched ==
    /\ CalledWithContext
    /\ \A h \in Step2Ids :
          CallCount(h) =
             IF ~Step2Begun THEN 0
             ELSE IF h = "globalFetchData"
                  THEN (IF h \in run.opts THEN 1 ELSE 0)
                  ELSE (IF h \in DefinesFetch(FetchedComponents) THEN 1 ELSE 0)

\* a client run /a -> /a?foo=1 with globalFetchData reached step 2: the component
\* passing the gate was fetched, the one failing it was not
C16_Witness ==
    /\ run.variant = "client"
    /\ run.to = FRouteAq
    /\ "globalFetchData" \in run.opts
    /\ Step2Begun
    /\ CallCount("globalFetchData") = 1
    /\ CallCount("fetchData2") = 1
    /\ CallCount("fetchData1") = 0

\* the step-2 entries of a client run in the order of the array: globalFetchData,
\* then the fetched components in matched order
ArrayOrder ==
    << "globalFetchData" >> \o
    [i \in DOMAIN FetchedComponents |-> FetchedComponents[i].id]

\* the value entry i of the array resolved with, undefined for a missing handler
ResultAt(i) ==
    IF run.calls[ArrayOrder[i]].st = "resolved" THEN run.calls[ArrayOrder[i]].v
    ELSE VUndefined

IsNullish(v) == v.t \in { "undefined", "null" }

\* a processed client run finished without a failure
ClientSucceeded ==
    /\ run.variant = "client"
    /\ Processed
    /\ run.pc = "done"
    /\ run.failure = << >>

\* C17: when every step of a processed client run succeeds, next is called once,
\* with the first non-null step-2 result in the order [globalFetchData,
\* components in matched order] whatever the completion order, and with no
\* value when every result is null or undefined.
C17_FirstNonNullInArrayOrder ==
    ClientSucceeded =>
        /\ Len(run.nextCalls) = 1
        /\ \/ /\ \A i \in DOMAIN ArrayOrder : IsNullish(ResultAt(i))
              /\ run.nextCalls[1] = VUndefined
           \/ \E i \in DOMAIN ArrayOrder :
                 /\ ~IsNullish(ResultAt(i))
                 /\ \A j \in 1..(i - 1) : IsNullish(ResultAt(j))
                 /\ run.nextCalls[1] = ResultAt(i)

\* the second component resolved with its redirect before the first one resolved
\* with its own, and next received the first component's redirect
C17_Witness ==
    /\ ClientSucceeded
    /\ run.to = FRouteB
    /\ run.calls["fetchData1"].v = RedirectOf("fetchData1")
    /\ run.calls["fetchData2"].v = RedirectOf("fetchData2")
    /\ \E i, j \in DOMAIN run.events :
          /\ i < j
          /\ run.events[i].e = "resolved" /\ run.events[i].h = "fetchData2"
          /\ run.events[j].e = "resolved" /\ run.events[j].h = "fetchData1"
    /\ run.nextCalls = << RedirectOf("fetchData1") >>

Rejected(h) == run.calls[h].st = "rejected"

\* C18: after a middleware failure no globalFetchData, fetchData or
\* postMiddleware is invoked; after a step-2 failure postMiddleware is not
\* invoked; after any failure the client has called next exactly once, with an
\* Error (also when a step-2 call returned a redirect), and the server promise
\* is rejected.
C18_FailureAborts ==
    /\ Rejected("middleware") =>
          \A h \in Step2Ids \cup { "postMiddleware" } : CallCount(h) = 0
    /\ (\E h \in Step2Ids : Rejected(h)) => CallCount("postMiddleware") = 0
    /\ (run.variant = "client" /\ \E h \in HandlerIds : Rejected(h)) =>
          /\ Len(run.nextCalls) = 1
          /\ run.nextCalls[1].t = "Error"
    /\ (run.variant = "server" /\ \E h \in HandlerIds : Rejected(h)) =>
          run.promise.st = "rejected"

\* postMiddleware failed after the first component had returned a redirect, and
\* next received an Error
C18_Witness ==
    /\ run.variant = "client"
    /\ run.calls["fetchData1"] = [st |-> "resolved", v |-> RedirectOf("fetchData1")]
    /\ Rejected("postMiddleware")
    /\ Len(run.nextCalls) = 1
    /\ run.nextCalls[1].t = "Error"

Msg_oopsJson == << "{", "\"", "e", "r", "r", "o", "r", "\"", ":", "\"", "o", "o", "p", "s",
                  "\"", "}" >>

\* C19: on a client pipeline failure next receives an Error: the caught Error
\* itself, Error(s) for a string s, Error(JSON.stringify(v)) for another value
\* v, and Error('Unknown routing error') when serialising v throws.
C19_NextGetsNormalizedError ==
    (run.variant = "client" /\ run.failure # << >>) =>
        /\ Len(run.nextCalls) = 1
        /\ LET e == run.failure[1]
               v == run.nextCalls[1]
           IN  /\ v.t = "Error"
               /\ (e.t = "Error") => v = e
               /\ (e.t = "string") => v = VErr(e.s)
               /\ (e = VObj(Msg_error, Msg_oops)) => v = VErr(Msg_oopsJson)
               /\ (e = VNull) => v = VErr(<< "n", "u", "l", "l" >>)
               /\ (e = VCircular) => v = VErr(Msg_unknown)

\* fetchData rejected with { error: 'oops' } and next received
\* Error('{"error":"oops"}')
C19_Witness ==
    /\ run.variant = "client"
    /\ run.calls["fetchData1"] = [st |-> "rejected", v |-> VObj(Msg_error, Msg_oops)]
    /\ run.nextCalls = << VErr(Msg_oopsJson) >>

\* the value of the first rejection of the run
FirstRejection ==
    LET idx == { i \in DOMAIN run.events : run.events[i].e = "rejected" }
    IN  run.events[CHOOSE i \in idx : \A j \in idx : i <= j].args[1]

\* C20: on the server a failure of middleware, globalFetchData, a fetchData or
\* postMiddleware rejects the returned promise with the original rejection
\* value, not wrapped.
C20_ServerRejectsUnwrapped ==
    (run.variant = "server" /\ \E h \in HandlerIds : Rejected(h)) =>
        run.promise = [st |-> "rejected", v |-> FirstRejection]

\* fetchData rejected with the string 'error' and the promise rejected with it
C20_Witness ==
    /\ run.variant = "server"
    /\ run.calls["fetchData1"] = [st |-> "rejected", v |-> VStr(Msg_error)]
    /\ run.promise = [st |-> "rejected", v |-> VStr(Msg_error)]

IsPending(h) == run.calls[h].st = "pending"

\* C21: as soon as a step-2 call of a client run has rejected, next has been
\* called once, with an Error made from that first rejection, whether the other
\* step-2 calls are still pending or have settled since; their settling adds
\* no call of next and postMiddleware is never invoked.
C21_FailFast ==
    (run.variant = "client" /\ \E h \in Step2Ids : Rejected(h)) =>
        /\ Len(run.nextCalls) = 1
        /\ run.nextCalls[1].t = "Error"
        /\ run.failure = << FirstRejection >>
        /\ CallCount("postMiddleware") = 0

\* the first component rejected while the second was pending; next was called at
\* once, and the second component resolved afterwards
C21_Witness ==
    /\ run.variant = "client"
    /\ Len(run.nextCalls) = 1
    /\ \E i, j, k \in DOMAIN run.events :
          /\ i < j /\ j < k
          /\ run.events[i].e = "rejected" /\ run.events[i].h = "fetchData1"
          /\ run.events[j].e = "next"
          /\ run.events[k].e = "resolved" /\ run.events[k].h = "fetchData2"

\* C22: while a call of a run is pending and no call has rejected, next has not
\* been called (the server promise is pending) and no later step has started:
\* nothing but the settling of the call moves the run on.
C22_HungCallStalls ==
    ((\E h \in HandlerIds : IsPending(h)) /\ ~(\E h \in HandlerIds : Rejected(h))) =>
        /\ run.nextCalls = << >>
        /\ (run.variant = "server") => run.promise.st = "pending"
        /\ IsPending("middleware") =>
              \A h \in Step2Ids \cup { "postMiddleware" } : CallCount(h) = 0
        /\ (\E h \in Step2Ids : IsPending(h)) => CallCount("postMiddleware") = 0

\* a client run whose first component never settled so far, after globalFetchData
\* and the second component resolved: no next, no postMiddleware
C22_Witness ==
    /\ run.variant = "client"
    /\ "postMiddleware" \in run.opts
    /\ IsPending("fetchData1")
    /\ run.calls["fetchData2"].st = "resolved"
    /\ run.calls["globalFetchData"].st = "resolved"
    /\ run.nextCalls = << >>
    /\ CallCount("postMiddleware") = 0

\* the context records the handlers of the run received, in call order
ReceivedContexts ==
    LET cs == SelectSeq(run.events, LAMBDA ev : ev.e = "call")
    IN  [i \in DOMAIN cs |-> cs[i].args]

\* C28: every handler call of a client run receives the record { ssrContext: null,
\* route: to, from } of the navigation, the same for middleware, globalFetchData,
\* each fetchData and postMiddleware; every handler call of a server run
\* receives the record with the given ssrContext, the current route and no
\* from.
C28_OneContextPerRun ==
    \A i \in DOMAIN ReceivedContexts :
        /\ ReceivedContexts[i] = ReceivedContexts[1]
        /\ (run.variant = "client") =>
              ReceivedContexts[i] =
                  [ssrContext |-> "null", route |-> run.to, from |-> FRouteFrom]
        /\ (run.variant = "server") =>
              ReceivedContexts[i] =
                  [ssrContext |-> "ssrContext", route |-> run.to, from |-> UndefinedRoute]

\* a client run a -> b called middleware, globalFetchData, both fetchData and
\* postMiddleware, all with the one record
C28_Witness ==
    /\ run.variant = "client"
    /\ run.to = FRouteB
    /\ Len(ReceivedContexts) = 5
    /\ \A i \in 1..5 :
          ReceivedContexts[i] =
              [ssrContext |-> "null", route |-> FRouteB, from |-> FRouteFrom]

----------------------------------------------------------------------------
(* Instrumentation properties                                              *)

\* what the router and the handlers see of a run
Observable(r) ==
    [nextCalls |-> r.nextCalls,
     calls     |-> r.calls,
     events    |-> SelectSeq(r.events, LAMBDA ev : ev.e # "measure"),
     failure   |-> r.failure]

\* C23: the hooks of a window with any state of the timing API call next as
\* often, with the same values, and run the same handler calls as the hooks of a
\* window without it given the same routes and fetch results; wiring the hooks
\* and measuring never throw, and the instrumentation hook only continues.
C23_InstrumentationNeutral ==
    /\ run.wired # "threw"
    /\ \A i \in DOMAIN run.perfCalls : ~run.perfCalls[i].threw
    /\ (run.pc # "aborted") => Observable(run) = Observable(shadow)
    /\ \A i \in DOMAIN run.eachNext : run.eachNext[i] = VUndefined

\* 'urbnperf|a-><to.name>|start' for the routes of the model, all left from 'a'
ExpectedStartMark(to) ==
    PERF_PREFIX \o << "|", "a", "-", ">" >>
        \o (IF to.name = "b" THEN << "b" >> ELSE << "a" >>)
        \o << "|", "s", "t", "a", "r", "t" >>

\* C24: a beforeEach hook run (timing API available) calls next once with no
\* value; on a transition with a gate-passing matched component it leaves the
\* entries without the prefix in place, removes every mark and measure with the
\* prefix and appends the one start mark of the transition; on a transition
\* with no gate-passing component it leaves all entries unchanged.
C24_BeforeEachResetsTrace ==
    [][ (run.pc = "idle" /\ run'.pc = "navigating") =>
          LET to      == run'.to
              from    == run'.from
              passing == \E c \in Range(getMatchedComponents(to)) :
                            shouldProcessRouteUpdate(c, getFetchDataArgs("null", to, from))
              kept    == SelectSeq(run.entries,
                                   LAMBDA m : ~StartsWith(m.name, PERF_PREFIX))
          IN  /\ run'.eachNext = Append(run.eachNext, VUndefined)
              /\ passing => run'.entries = Append(kept, MarkEntry(ExpectedStartMark(to)))
              /\ ~passing => run'.entries = run.entries ]_vars

\* the hook ran for a -> b over the entries of an earlier trace: the other
\* code's mark is kept, the old start mark and measure are gone, the new start
\* mark is the only prefixed entry
C24_Witness ==
    /\ run.pc = "navigating"
    /\ run.to = FRouteB
    /\ run.eachNext = << VUndefined >>
    /\ run.entries = << MarkEntry(Str_other), MarkEntry(ExpectedStartMark(FRouteB)) >>

\* the names of the measures the run recorded, in order
MeasureSeq ==
    LET ms == SelectSeq(run.events, LAMBDA ev : ev.e = "measure")
    IN  [i \in DOMAIN ms |-> ms[i].h]

PipelineMeasures == << "beforeResolve", "middleware-complete", "fetchData-complete" >>
PipelineMeasureTexts == << Str_beforeResolve, Str_middlewareComplete, Str_fetchDataComplete >>

\* 'urbnperf|a-><to.name>|<text>'
ExpectedMeasureName(to, text) ==
    PERF_PREFIX \o << "|", "a", "-", ">" >>
        \o (IF to.name = "b" THEN << "b" >> ELSE << "a" >>)
        \o << "|" >> \o text

\* the measures with the prefix on the timeline
PrefixedMeasures ==
    SelectSeq(run.entries,
              LAMBDA m : m.entryType = "measure" /\ StartsWith(m.name, PERF_PREFIX))

\* C25: in a processed client run with the timing API (its beforeEach hook has
\* set the start mark) the measures recorded are a prefix of beforeResolve,
\* middleware-complete, fetchData-complete, each named after and anchored to
\* the start mark of the transition; beforeResolve precedes every handler
\* call, middleware-complete follows the middleware's resolution and precedes
\* every fetch call, fetchData-complete follows the resolution of every step-2
\* call and precedes the postMiddleware call; a step that was not reached has
\* no measure.
C25_MeasuresInOrder ==
    (run.variant = "client" /\ Processed /\ run.api = "available") =>
        /\ Len(MeasureSeq) >= 1
        /\ MeasureSeq = SubSeq(PipelineMeasures, 1, Len(MeasureSeq))
        /\ Len(PrefixedMeasures) = Len(MeasureSeq)
        /\ \A k \in DOMAIN PrefixedMeasures :
              PrefixedMeasures[k] =
                  MeasureEntry(ExpectedMeasureName(run.to, PipelineMeasureTexts[k]),
                               ExpectedStartMark(run.to))
        /\ \A i \in DOMAIN run.events :
              LET ev == run.events[i] IN
              /\ (ev.e = "call") => EventBefore("measure", "beforeResolve", i)
              /\ (ev.e = "call" /\ ev.h \in Step2Ids)
                    => EventBefore("measure", "middleware-complete", i)
              /\ (ev.e = "call" /\ ev.h = "postMiddleware")
                    => EventBefore("measure", "fetchData-complete", i)
              /\ (ev.e = "measure" /\ ev.h = "middleware-complete"
                     /\ "middleware" \in run.opts)
                    => EventBefore("resolved", "middleware", i)
              /\ (ev.e = "measure" /\ ev.h = "fetchData-complete")
                    => \A k \in DOMAIN Step2Handlers(run) :
                           EventBefore("resolved", Step2Handlers(run)[k], i)
        /\ Step2Begun => Len(MeasureSeq) >= 2
        /\ (CallCount("postMiddleware") = 1 \/ (run.pc = "done" /\ run.failure = << >>))
              => Len(MeasureSeq) = 3

\* a run a -> b with all three options finished: the three measures of the trace
\* follow its start mark
C25_Witness ==
    /\ run.variant = "client"
    /\ run.to = FRouteB
    /\ run.opts = OptsHandlers
    /\ run.pc = "done"
    /\ run.failure = << >>
    /\ MeasureSeq = PipelineMeasures
    /\ run.entries =
          << MarkEntry(ExpectedStartMark(FRouteB)),
             MeasureEntry(ExpectedMeasureName(FRouteB, Str_beforeResolve),
                          ExpectedStartMark(FRouteB)),
             MeasureEntry(ExpectedMeasureName(FRouteB, Str_middlewareComplete),
                          ExpectedStartMark(FRouteB)),
             MeasureEntry(ExpectedMeasureName(FRouteB, Str_fetchDataComplete),
                          ExpectedStartMark(FRouteB)) >>

IsStartMark(m) ==
    /\ m.entryType = "mark"
    /\ StartsWith(m.name, PERF_PREFIX)
    /\ EndsWith(m.name, Str_start)

\* C26: every perfMeasure call returns without throwing; it returns true exactly
\* when the timing API is available and a mark with the prefix and the 'start'
\* suffix exists, and then it has appended exactly one measure; otherwise it
\* returns false and the entries are unchanged.
C26_PerfMeasureTotal ==
    \A i \in DOMAIN run.perfCalls :
        LET c     == run.perfCalls[i]
            ready == /\ run.api = "available"
                     /\ \E k \in DOMAIN c.before : IsStartMark(c.before[k])
        IN  /\ ~c.threw
            /\ c.ret = (IF ready THEN "true" ELSE "false")
            /\ ready => /\ Len(c.after) = Len(c.before) + 1
                         /\ SubSeq(c.after, 1, Len(c.before)) = c.before
                         /\ c.after[Len(c.after)].entryType = "measure"
            /\ ~ready => c.after = c.before

\* component c of the destination passes the gate for the transition of the run
PassesGate(c, r) == shouldProcessRouteUpdate(c, getFetchDataArgs("null", r.to, r.from))

\* no matched component of the destination of r passes the gate
NonePasses(r) ==
    /\ ~GetMatchedThrows(r.to)
    /\ \A c \in Range(getMatchedComponents(r.to)) : ~PassesGate(c, r)

\* C27: a beforeResolve hook run for a transition on which no matched component
\* passes the gate invokes no handler, calls perfMeasure not at all, leaves the
\* timing entries as they were and calls next once with no value; and in no
\* client run is the fetchData of a matched component failing the gate invoked.
C27_GateSkipRunsNothing ==
    /\ [][ (run.variant = "none" /\ run'.variant = "client" /\ NonePasses(run')) =>
             /\ run'.calls = run.calls
             /\ run'.perfCalls = run.perfCalls
             /\ run'.entries = run.entries
             /\ run'.nextCalls = << VUndefined >>
             /\ run'.events = << [e |-> "next", h |-> "next", args |-> << VUndefined >>] >>
             /\ run'.pc = "done" ]_vars
    /\ [](run.variant = "client" =>
            \A c \in Range(getMatchedComponents(run.to)) :
                ~PassesGate(c, run) => CallCount(c.id) = 0)

\* the hooks ran for /a -> /a?foo=1 with a default-policy component, with the
\* timing API and the entries of an earlier trace: nothing but next() happened
C27_Witness ==
    /\ run.variant = "client"
    /\ run.to = FRouteSkip
    /\ run.api = "available"
    /\ run.opts = OptsHandlers
    /\ run.entries = TimelineStale
    /\ run.nextCalls = << VUndefined >>
    /\ \A h \in HandlerIds : CallCount(h) = 0

----------------------------------------------------------------------------
(* Properties of both hook sets on one router                              *)

\* the fetch pipeline of the navigation is suspended at an await
Suspended == run.variant = "client" /\ run.pc \in { "awaitMiddleware", "awaitAll", "awaitPost" }

\* C31: the removal queue changes only in a step that is one whole invocation
\* of the post-commit hook, which reads the queue as the previous invocation
\* left it and leaves the fetch pipeline where it was; the registration hook,
\* the pre-navigation hook and every step of the fetch pipeline leave the
\* queue unchanged
C31_QueueOnlyInAfterEach ==
    [][ /\ queuedRemovalModules' # queuedRemovalModules =>
              /\ pc = "resolved" /\ pc' = "idle"
              /\ hook' = "afterEach"
              /\ prevQueue' = queuedRemovalModules
              /\ current' = pending
              /\ run' = run
        /\ run' # run => queuedRemovalModules' = queuedRemovalModules
        /\ hook' = "beforeResolve" => queuedRemovalModules' = queuedRemovalModules
      ]_vars

\* the pipeline of a navigation that registered a module is suspended at an
\* await while the queue holds a name enqueued by an earlier post-commit hook
C31_Witness ==
    /\ Suspended
    /\ hook = "beforeResolve" /\ regLog # << >>
    /\ queuedRemovalModules # << >>

\* C33: after every post-commit hook invocation, each module path in the store
\* (every one of them registered by a pre-commit hook) is declared by a matched
\* component of the current route or named in the removal queue
C33_NoUntrackedModule ==
    hook = "afterEach" =>
        \A m \in modules :
            \E n \in Declared(current) \cup Range(queuedRemovalModules) : Split(n) = m

\* C35: every invocation of a pre-commit hook calls next exactly once: the
\* registration hook within its own synchronous run, the fetch hook never more
\* than once, exactly once when its async function has ended, and, every
\* invoked call settling, a suspended fetch hook eventually makes that call
C35_NextExactlyOnce ==
    /\ [][ /\ hook' = "beforeResolve" => Len(nextLog') = 1
           /\ Len(run'.nextCalls) <= 1
           /\ run'.variant = "client" =>
                  IF run'.pc = "done" THEN Len(run'.nextCalls) = 1
                  ELSE run'.pc \in { "awaitMiddleware", "awaitAll", "awaitPost" }
         ]_vars
    /\ (Suspended ~> (run.pc = "done" /\ Len(run.nextCalls) = 1))

\* the fetch hook of a navigation whose registration hook called next() was
\* suspended at an await and has called next once, with a redirect value
C35_Witness ==
    /\ hook = "beforeResolve" /\ nextLog = << VUndefined >>
    /\ run.variant = "client" /\ run.pc = "done"
    /\ \E h \in FetchIds : run.calls[h].st = "resolved" /\ run.nextCalls = << RedirectOf(h) >>

\* the calls of next delivered to navigation i
DeliveriesTo(i) == SelectSeq(delivered, LAMBDA d : d.nav = i)

\* what the results of run r alone make it pass to next: the error its first
\* failed await threw, else the first non-null result of its own fetch calls
OwnOutcome(r) ==
    IF r.failure # << >> THEN NormalizeError(r.failure[1])
    ELSE FirstNonNull(Step2Results(r))

\* a value that a call of navigation i settled with
TaggedBy(v, i) == v.t \in { "string", "Error" } /\ v.s # << >> /\ v.s[Len(v.s)] = NavText(i)

\* C36: of two overlapping runs of the fetch hook, each has at most one call of
\* next delivered to its own navigation and, once it has ended, exactly one; the
\* value is the outcome of its own middleware and fetch results and never a
\* value that a call of the other navigation settled with
C36_OwnNextOwnOutcome ==
    \A i \in Navs :
        /\ Len(DeliveriesTo(i)) = Len(RunOf(i).nextCalls)
        /\ Len(DeliveriesTo(i)) <= 1
        /\ RunOf(i).variant = "client" /\ RunOf(i).pc = "done" => Len(DeliveriesTo(i)) = 1
        /\ \A k \in DOMAIN DeliveriesTo(i) :
              /\ DeliveriesTo(i)[k].v = OwnOutcome(RunOf(i))
              /\ DeliveriesTo(i)[k].v = VUndefined \/ TaggedBy(DeliveriesTo(i)[k].v, i)

\* the second run, invoked while the first was suspended, ended first; both
\* passed a redirect or an error to next
C36_Witness ==
    /\ Len(delivered) = 2
    /\ delivered[1].nav = 2 /\ delivered[2].nav = 1
    /\ delivered[1].v # VUndefined /\ delivered[2].v # VUndefined
    /\ run.pc = "done" /\ other.pc = "done"

----------------------------------------------------------------------------
(* Dev server properties                                                   *)

\* an error-free client build and an error-free server build have completed
BothBuilt == dev.manifestFile # 0 /\ dev.bundleFile # 0

\* the arguments of a cb call made with the newest files
NewestCall(d) ==
    [serverBundle   |-> ReadFile(d.bundleFile),
     template       |-> ReadFile(d.templateFile),
     clientManifest |-> ReadFile(d.manifestFile)]

C39_ErroredBuildIgnored ==
    [][ (dev' # dev /\ dev'.last \in { "clientErrors", "serverErrors" })
          => /\ dev'.clientManifest = dev.clientManifest
             /\ dev'.serverBundle = dev.serverBundle
             /\ dev'.cbLog = dev.cbLog
             /\ dev'.ready = dev.ready
             /\ ~dev'.thrown ]_vars

\* a client build completes with errors after both files were loaded
C39_Witness ==
    /\ dev.last = "clientErrors"
    /\ DevTruthy(dev.clientManifest)
    /\ DevTruthy(dev.serverBundle)
    /\ Len(dev.cbLog) = 1

----------------------------------------------------------------------------
(* Gate properties                                                         *)

GateArgs == getFetchDataArgs("null", gRoute, gFrom)

\* C6: the gate returns true for every transition whose from.name differs from
\* route.name, whatever the component's policy.
C6_NameChangeAlwaysProcessed ==
    (gResult # "none" /\ gFrom.name # gRoute.name) => gResult = "true"

\* names differ, nothing else does, and the function policy returns false
C6_Witness ==
    /\ gResult = "true"
    /\ gFrom.name # gRoute.name
    /\ gFrom.path = gRoute.path
    /\ gFrom.query = gRoute.query
    /\ gFrom.hash = gRoute.hash
    /\ gC.policy = PolicyFn("returnsFalse")

\* C7: with equal names and no policy (or an empty object policy), the gate
\* returns false exactly when the paths are equal.
C7_DefaultPolicyChecksPathOnly ==
    (/\ gResult # "none"
     /\ gFrom.name = gRoute.name
     /\ gC.policy \in { PolicyNone, PolicyObj(<< >>) })
        => (gResult = "false" <=> gFrom.path = gRoute.path)

\* only query and hash change under the default policy: not processed
C7_Witness ==
    /\ gResult = "false"
    /\ gFrom.name = gRoute.name
    /\ gC.policy = PolicyNone
    /\ gFrom.query # gRoute.query
    /\ gFrom.hash # gRoute.hash

\* field f of the merged policy is enabled
PolicyEnabled(c, f) ==
    IF f \in DOMAIN c.policy.obj THEN c.policy.obj[f] = "true" ELSE f = "path"

\* C8: with equal names and an object policy, the gate equals (path enabled and
\* path differs) or (query enabled and query not deep-equal) or (hash enabled
\* and hash differs), the defaults {path: true, query: false, hash: false}
\* being overridden only by the fields the component supplies.
C8_ObjectPolicy ==
    (/\ gResult # "none"
     /\ gFrom.name = gRoute.name
     /\ gC.policy.kind = "object")
        => (gResult = "true" <=>
              \/ (PolicyEnabled(gC, "path") /\ gFrom.path # gRoute.path)
              \/ (PolicyEnabled(gC, "query") /\ gFrom.query # gRoute.query)
              \/ (PolicyEnabled(gC, "hash") /\ gFrom.hash # gRoute.hash))

\* the component supplies only { hash: true }; path keeps its default and the
\* hash change alone makes the gate pass
C8_Witness ==
    /\ gResult = "true"
    /\ gFrom.name = gRoute.name
    /\ gC.policy = PolicyObj([f \in {"hash"} |-> "true"])
    /\ gFrom.path = gRoute.path
    /\ gFrom.query # gRoute.query
    /\ gFrom.hash # gRoute.hash

\* C9: with equal names and a function policy, the gate is true exactly when
\* the function returns boolean true; the default object policy is not applied.
C9_FunctionPolicy ==
    (/\ gResult # "none"
     /\ gFrom.name = gRoute.name
     /\ gC.policy.kind = "function")
        => (gResult = "true" <=> CallPolicyFn(gC.policy.fn, GateArgs) = "true")

\* the function returns the truthy non-boolean 1 on a path change: not processed
C9_Witness ==
    /\ gResult = "false"
    /\ gFrom.name = gRoute.name
    /\ gC.policy = PolicyFn("returnsOne")
    /\ gFrom.path # gRoute.path

====
